---- MODULE Spec2Model ----
(***************************************************************************)
(* Endpoint mapping and method-body splicing of the Spring Boot delegate   *)
(* generators.  Text is a sequence of one-character strings, so that       *)
(* lower(), split('/'), endswith() and replace() are computed character by *)
(* character, as Python computes them.                                     *)
(***************************************************************************)
EXTENDS Integers, Sequences, FiniteSets, TLC

VARIABLES
  pc,                  \* position of the running operation
  script,              \* which generator's endpoint matcher runs
  external_endpoints,  \* external catalog
  internal_endpoints,  \* internal catalog
  manual_mappings,     \* EndpointMapper.manual_mappings
  mappings,            \* the list map_endpoints builds
  ext_idx,             \* position of map_endpoints' loop in the external catalog
  calls,               \* external endpoints handed to the heuristic matcher
  ext_parameters,      \* _auto_map_parameters: ext_ep.parameters
  int_parameters,      \* _auto_map_parameters: int_ep.parameters
  mapping,             \* _auto_map_parameters: the dict it returns
  content,             \* _update_existing_method: the Java source text
  method_name,         \* _update_existing_method: the target method
  new_body,            \* _update_existing_method: the body to splice in
  new_content,         \* _update_existing_method: the text it returns
  splicer,             \* which function splices: inject_method or merge_method
  java_source,         \* the Java file before the first call
  java_file,           \* the Java file on disk
  inject_parameters,   \* inject_method: parameters
  return_type,         \* inject_method: return_type
  writes,              \* the texts written to the Java file, in order
  error,               \* the exception the call raised, None when it returned
  driver,              \* which script's main flow runs
  specs_ok,            \* per input document: it can be read and parsed
  run_idx,             \* position of the driving loop
  method_body,         \* the body the oracle step produced
  delegate_files,      \* the delegate directory: file name -> text
  generated_count,     \* run: generated_count
  failed_count,        \* run: failed_count
  events,              \* oracle calls, subprocess runs and writes, in order
  summary,             \* the counts the final summary prints
  plan,                \* AgentState: plan
  files,               \* AgentState: files
  node_trace,          \* the nodes of the graph that have run, in order
  raw_output,          \* get_complete_oas: raw_output
  agent_calls,         \* how many times invoke_agent was called
  spec                 \* get_complete_oas: the value returned

mapVars   == <<script, external_endpoints, internal_endpoints, manual_mappings,
               mappings, ext_idx, calls>>
paramVars == <<ext_parameters, int_parameters, mapping>>
spliceVars == <<content, method_name, new_body, new_content>>
injectVars == <<splicer, java_source, java_file, inject_parameters, return_type,
                writes, error>>
runVars == <<driver, specs_ok, run_idx, method_body, delegate_files,
             generated_count, failed_count, events, summary>>
agentVars == <<plan, files, node_trace, raw_output, agent_calls, spec>>

vars == <<pc, mapVars, paramVars, spliceVars, injectVars, runVars, agentVars>>

(* ---------------- bounds ---------------- *)
MaxExt == 2
MaxInt == 3
MaxParams == 2
MaxBody == 3

(* ---------------- text helpers ---------------- *)
ToLower ==
  ("A" :> "a") @@ ("B" :> "b") @@ ("C" :> "c") @@ ("D" :> "d") @@ ("E" :> "e") @@
  ("F" :> "f") @@ ("G" :> "g") @@ ("H" :> "h") @@ ("I" :> "i") @@ ("J" :> "j") @@
  ("K" :> "k") @@ ("L" :> "l") @@ ("M" :> "m") @@ ("N" :> "n") @@ ("O" :> "o") @@
  ("P" :> "p") @@ ("Q" :> "q") @@ ("R" :> "r") @@ ("S" :> "s") @@ ("T" :> "t") @@
  ("U" :> "u") @@ ("V" :> "v") @@ ("W" :> "w") @@ ("X" :> "x") @@ ("Y" :> "y") @@
  ("Z" :> "z")

\* str.lower()
Lower(s) ==
  [k \in 1..Len(s) |-> IF s[k] \in DOMAIN ToLower THEN ToLower[s[k]] ELSE s[k]]

\* str.split(sep) for a one-character separator: the list of segments,
\* the empty segment before a leading separator included
RECURSIVE Split(_, _)
Split(s, sep) ==
  IF \A k \in 1..Len(s) : s[k] # sep
  THEN <<s>>
  ELSE LET p == CHOOSE k \in 1..Len(s) :
                  s[k] = sep /\ \A j \in 1..(k-1) : s[j] # sep
       IN  <<SubSeq(s, 1, p-1)>> \o Split(SubSeq(s, p+1, Len(s)), sep)

\* set(list)
SetOf(seq) == {seq[k] : k \in 1..Len(seq)}

\* str.endswith(suffix)
EndsWith(s, suffix) ==
  /\ Len(suffix) <= Len(s)
  /\ SubSeq(s, Len(s) - Len(suffix) + 1, Len(s)) = suffix

\* str.startswith(prefix) at offset p (1-based)
StartsWithAt(s, p, prefix) ==
  /\ p + Len(prefix) - 1 <= Len(s)
  /\ SubSeq(s, p, p + Len(prefix) - 1) = prefix

\* str.replace(old, ""): every non-overlapping occurrence, left to right
RECURSIVE Remove(_, _)
Remove(s, old) ==
  IF s = <<>> THEN <<>>
  ELSE IF StartsWithAt(s, 1, old)
       THEN Remove(SubSeq(s, Len(old) + 1, Len(s)), old)
       ELSE <<s[1]>> \o Remove(SubSeq(s, 2, Len(s)), old)

\* min(S)
Min(S) == CHOOSE m \in S : \A n \in S : m <= n

\* Optional[T]: <<>> is None, <<x>> is a value
None == <<>>
Some(x) == <<x>>

(* ---------------- input catalogs ---------------- *)
P_userId == [name |-> <<"u","s","e","r","I","d">>, location |-> "path", type |-> "string"]
P_id     == [name |-> <<"i","d">>,     location |-> "path", type |-> "string"]
P_body   == [name |-> <<"b","o","d","y">>,   location |-> "body", type |-> "User"]

\* external endpoints (create_example_files and the spec's scenarios)
ExtEndpoints ==
  { [path |-> <<"/","a","p","i","/","u","s","e","r","s","/","{","u","s","e","r","I","d","}">>, method |-> "GET",
     operation_id |-> <<"g","e","t","U","s","e","r","B","y","I","d">>, parameters |-> <<P_userId>>,
     tag |-> <<"u","s","e","r","s">>, response_type |-> "User"],
    [path |-> <<"/","a","p","i","/","u","s","e","r","s">>, method |-> "POST",
     operation_id |-> <<"c","r","e","a","t","e","U","s","e","r">>, parameters |-> <<P_body>>,
     tag |-> <<"u","s","e","r","s">>, response_type |-> "User"],
    [path |-> <<"/","a","p","i","/","o","r","d","e","r","s">>, method |-> "GET",
     operation_id |-> <<"l","i","s","t","O","r","d","e","r","s">>, parameters |-> <<>>,
     tag |-> <<"o","r","d","e","r","s">>, response_type |-> ""] }

\* internal endpoints
IntEndpoints ==
  { [path |-> <<"/","i","n","t","e","r","n","a","l","/","v","1","/","u","s","e","r","s","/","{","i","d","}">>, method |-> "GET",
     operation_id |-> <<"f","e","t","c","h","U","s","e","r","B","y","I","d">>, parameters |-> <<P_id>>],
    [path |-> <<"/","i","n","t","e","r","n","a","l","/","v","1","/","u","s","e","r","s">>, method |-> "POST",
     operation_id |-> <<"r","e","g","i","s","t","e","r","U","s","e","r">>, parameters |-> <<P_body>>],
    [path |-> <<"/","u","s","e","r","s","/","a","c","t","i","v","e">>, method |-> "GET",
     operation_id |-> <<"l","i","s","t","A","c","t","i","v","e">>, parameters |-> <<>>],
    [path |-> <<"/","u","s","e","r","s","/","{","i","d","}","/","o","r","d","e","r","s">>, method |-> "GET",
     operation_id |-> <<"G","E","T","U","S","E","R","B","Y","I","D">>, parameters |-> <<P_id>>],
    [path |-> <<"/","v","1","/","o","r","d","e","r","s">>, method |-> "GET",
     operation_id |-> <<"f","e","t","c","h","O","r","d","e","r","s">>, parameters |-> <<>>],
    [path |-> <<"/","i","n","t","e","r","n","a","l","/","l","i","s","t">>, method |-> "GET",
     operation_id |-> <<"l","i","s","t","O","r","d","e","r","s">>, parameters |-> <<>>],
    [path |-> <<"/","u","s","e","r","s","/","a","c","t","i","v","e">>, method |-> "POST",
     operation_id |-> <<"G","E","T","U","S","E","R","B","Y","I","D">>, parameters |-> <<P_body>>] }

RECURSIVE SeqsUpTo(_, _)
SeqsUpTo(S, n) ==
  IF n = 0 THEN {<<>>}
  ELSE LET shorter == SeqsUpTo(S, n - 1)
       IN  shorter \cup {Append(q, x) : q \in shorter, x \in S}

\* OASParser.parse_endpoints walks the paths dict and then each path's
\* methods dict: a (path, method) pair occurs once and the endpoints of one
\* path are adjacent
ParsedCatalog(cat) ==
  /\ \A a, b \in 1..Len(cat) :
        (cat[a].path = cat[b].path /\ cat[a].method = cat[b].method) => a = b
  /\ \A a, b, c \in 1..Len(cat) :
        (a < b /\ b < c /\ cat[a].path = cat[c].path) => cat[b].path = cat[a].path

Catalogs(S, n) == {cat \in SeqsUpTo(S, n) : ParsedCatalog(cat)}

(* ---------------- manual override tables ---------------- *)
\* entries of the mapping file's "mappings" list
O_getUser ==
  [external_operation_id |-> <<"g","e","t","U","s","e","r","B","y","I","d">>,
   internal_operation_id |-> <<"f","e","t","c","h","U","s","e","r","B","y","I","d">>,
   param_mapping |-> (<<"u","s","e","r","I","d">> :> <<"i","d">>)]
O_getUserLower ==
  [external_operation_id |-> <<"g","e","t","U","s","e","r","B","y","I","d">>,
   internal_operation_id |-> <<"f","e","t","c","h","u","s","e","r","b","y","i","d">>]
O_listOrders ==
  [external_operation_id |-> <<"l","i","s","t","O","r","d","e","r","s">>,
   internal_operation_id |-> <<"G","E","T","U","S","E","R","B","Y","I","D">>,
   param_mapping |-> <<>>]
O_createUser ==
  [external_operation_id |-> <<"c","r","e","a","t","e","U","s","e","r">>,
   internal_operation_id |-> <<"r","e","g","i","s","t","e","r","U","s","e","r">>]
O_noTarget ==
  [external_operation_id |-> <<"c","r","e","a","t","e","U","s","e","r">>,
   param_mapping |-> (<<"b","o","d","y">> :> <<"b","o","d","y">>)]

MappingFiles ==
  { <<>>, <<O_getUser>>, <<O_getUserLower>>, <<O_getUserLower, O_getUser>>,
    <<O_getUser, O_listOrders, O_createUser>>, <<O_getUserLower, O_noTarget>> }

\* EndpointMapper.__init__: {m['external_operation_id']: m for m in list};
\* a later entry with the same key replaces an earlier one
BuildManual(list) ==
  [op \in {list[k].external_operation_id : k \in 1..Len(list)} |->
     LET last == CHOOSE k \in 1..Len(list) :
                   /\ list[k].external_operation_id = op
                   /\ \A j \in (k+1)..Len(list) : list[j].external_operation_id # op
     IN  list[last]]

\* dict.get(key, default)
Get(d, key, default) == IF key \in DOMAIN d THEN d[key] ELSE default

(* ---------------- EndpointMapper (DelegateGenrator.py) ---------------- *)
\* first index of seq whose element satisfies Test, 0 when there is none
FirstIndex(seq, Test(_)) ==
  IF \E k \in 1..Len(seq) : Test(seq[k])
  THEN CHOOSE k \in 1..Len(seq) :
         Test(seq[k]) /\ \A j \in 1..(k-1) : ~Test(seq[j])
  ELSE 0

FirstWhere(seq, Test(_)) ==
  LET k == FirstIndex(seq, Test) IN IF k = 0 THEN None ELSE Some(seq[k])

\* mutant: the scan keeps the last endpoint with the id, as a dict built
\* from the catalog would
_find_endpoint_by_operation_id_Last(endpoints, operation_id) ==
  LET same == {k \in 1..Len(endpoints) :
                 endpoints[k].operation_id = operation_id}
  IN  IF same = {} THEN None
      ELSE Some(endpoints[CHOOSE k \in same : \A j \in same : j <= k])

_find_endpoint_by_operation_id(endpoints, operation_id) ==
  LET SameId(ep) == ep.operation_id = operation_id
  IN  FirstWhere(endpoints, SameId)

\* the set of path parts of a path: set(path.lower().split('/'))
PathParts(path) == SetOf(Split(Lower(path), "/"))

\* mutant: path similarity is tried before operation-id equality
_find_best_match_PathFirst(external, int_eps) ==
  LET SameId(int_ep) ==
        Lower(int_ep.operation_id) = Lower(external.operation_id)
      SimilarPath(int_ep) ==
        /\ int_ep.method = external.method
        /\ PathParts(external.path) \cap PathParts(int_ep.path) # {}
      byPath == FirstWhere(int_eps, SimilarPath)
  IN  IF byPath # None THEN byPath ELSE FirstWhere(int_eps, SameId)

\* mutant: operation ids are compared without lower()
_find_best_match_CaseSensitive(external, int_eps) ==
  LET SameId(int_ep) == int_ep.operation_id = external.operation_id
      SimilarPath(int_ep) ==
        /\ int_ep.method = external.method
        /\ PathParts(external.path) \cap PathParts(int_ep.path) # {}
      byId == FirstWhere(int_eps, SameId)
  IN  IF byId # None THEN byId ELSE FirstWhere(int_eps, SimilarPath)

_find_best_match(external, int_eps) ==
  LET SameId(int_ep) ==
        Lower(int_ep.operation_id) = Lower(external.operation_id)
      SimilarPath(int_ep) ==
        /\ int_ep.method = external.method
        /\ PathParts(external.path) \cap PathParts(int_ep.path) # {}
      byId == FirstWhere(int_eps, SameId)
  IN  IF byId # None THEN byId ELSE FirstWhere(int_eps, SimilarPath)

\* {p.name.lower(): p.name for p in parameters} as the list of its items:
\* a key keeps the position of its first insertion and the value of its last
RECURSIVE ParamDict(_)
ParamDict(parameters) ==
  IF parameters = <<>> THEN <<>>
  ELSE LET front == ParamDict(SubSeq(parameters, 1, Len(parameters) - 1))
           p     == parameters[Len(parameters)]
           key   == Lower(p.name)
       IN  IF \E k \in 1..Len(front) : front[k][1] = key
           THEN [k \in 1..Len(front) |->
                   IF front[k][1] = key THEN <<key, p.name>> ELSE front[k]]
           ELSE Append(front, <<key, p.name>>)

_auto_map_parameters(ext_ep, int_ep) ==
  LET ext_params == ParamDict(ext_ep.parameters)
      int_params == ParamDict(int_ep.parameters)
      Exact(e)   == {k \in 1..Len(int_params) : int_params[k][1] = e[1]}
      Variation(e) ==
        {k \in 1..Len(int_params) :
           \/ EndsWith(e[1], int_params[k][1])
           \/ EndsWith(int_params[k][1], e[1])}
      Mapped == {k \in 1..Len(ext_params) :
                   Exact(ext_params[k]) # {} \/ Variation(ext_params[k]) # {}}
      Target(e) ==
        IF Exact(e) # {} THEN int_params[Min(Exact(e))][2]
        ELSE int_params[Min(Variation(e))][2]
  IN  [ext_name \in {ext_params[k][2] : k \in Mapped} |->
         Target(ext_params[CHOOSE k \in Mapped : ext_params[k][2] = ext_name])]

(* ------- SpringBootGatewayGenerator (generator_01211133.py) ------- *)
_paths_similar(path1, path2) ==
  LET Clean(p) == Remove(Remove(Remove(p, <<"/","v","1">>), <<"/","v","2">>), <<"/","a","p","i">>)
  IN  Clean(path1) = Clean(path2)

\* the internal spec's paths dict is walked in catalog order
_find_internal_endpoint(ext_path, ext_method, ext_details, internal_spec) ==
  LET ExactPath(e)   == e.path = ext_path /\ e.method = ext_method
      SimilarPath(e) == _paths_similar(ext_path, e.path) /\ e.method = ext_method
      ext_op_id      == ext_details.operation_id
      SameId(e) ==
        /\ ext_op_id # <<>>
        /\ e.operation_id # <<>>
        /\ Lower(ext_op_id) = Lower(e.operation_id)
      first  == FirstWhere(internal_spec, ExactPath)
      second == FirstWhere(internal_spec, SimilarPath)
  IN  IF first # None THEN first
      ELSE IF second # None THEN second
      ELSE FirstWhere(internal_spec, SameId)

(* ---------------- the mapping pass ---------------- *)
Delegate == "DelegateGenrator"
Gateway  == "generator_01211133"

\* the variables of the operations that do not run
MapIdle ==
  /\ script = Delegate
  /\ external_endpoints = <<>> /\ internal_endpoints = <<>>
  /\ manual_mappings = <<>> /\ mappings = <<>> /\ ext_idx = 1 /\ calls = <<>>

ParamIdle ==
  ext_parameters = <<>> /\ int_parameters = <<>> /\ mapping = <<>>

SpliceIdle ==
  content = <<>> /\ method_name = "" /\ new_body = <<>> /\ new_content = <<>>

InjectIdle ==
  /\ splicer = "" /\ java_source = <<>> /\ java_file = <<>>
  /\ inject_parameters = <<>> /\ return_type = "" /\ writes = <<>> /\ error = <<>>

RunIdle ==
  /\ driver = "" /\ specs_ok = <<>> /\ run_idx = 1 /\ method_body = <<>>
  /\ delegate_files = <<>> /\ generated_count = 0 /\ failed_count = 0
  /\ events = <<>> /\ summary = <<>>

AgentIdle ==
  /\ plan = <<>> /\ files = <<>> /\ node_trace = <<>>
  /\ raw_output = <<>> /\ agent_calls = 0 /\ spec = <<>>

InitMap ==
  /\ script \in {Delegate, Gateway}
  /\ external_endpoints \in Catalogs(ExtEndpoints, MaxExt)
  /\ internal_endpoints \in Catalogs(IntEndpoints, MaxInt)
  /\ manual_mappings \in
       IF script = Delegate THEN {BuildManual(f) : f \in MappingFiles}
       ELSE {<<>>}
  /\ mappings = <<>>
  /\ ext_idx = 1
  /\ pc = "loop"
  /\ calls = <<>>
  /\ ParamIdle
  /\ SpliceIdle
  /\ InjectIdle
  /\ RunIdle
  /\ AgentIdle

InLoop(s) == pc = "loop" /\ script = s /\ ext_idx <= Len(external_endpoints)

ext_ep == external_endpoints[ext_idx]

HasManual == ext_ep.operation_id \in DOMAIN manual_mappings

\* mutant: the heuristic match is preferred to the override's target
MapManual_HeuristicFirst ==
  /\ InLoop(Delegate) /\ HasManual
  /\ LET manual == manual_mappings[ext_ep.operation_id] IN
       /\ "internal_operation_id" \in DOMAIN manual
       /\ LET named == _find_endpoint_by_operation_id(
                         internal_endpoints, manual.internal_operation_id)
              best  == _find_best_match(ext_ep, internal_endpoints)
          IN  /\ named # None
              /\ mappings' = Append(mappings,
                   [external_endpoint |-> ext_ep,
                    internal_endpoint |-> IF best # None THEN best[1] ELSE named[1],
                    param_mapping |-> Get(manual, "param_mapping", <<>>)])
  /\ ext_idx' = ext_idx + 1
  /\ UNCHANGED <<script, external_endpoints, internal_endpoints,
                 manual_mappings, calls, pc>>
  /\ UNCHANGED <<paramVars, spliceVars, injectVars, runVars, agentVars>>

\* mutant: an override without param_mapping gets the automatic mapping
MapManual_AutoParams ==
  /\ InLoop(Delegate) /\ HasManual
  /\ LET manual == manual_mappings[ext_ep.operation_id] IN
       /\ "internal_operation_id" \in DOMAIN manual
       /\ LET int_ep == _find_endpoint_by_operation_id(
                          internal_endpoints, manual.internal_operation_id)
          IN  /\ int_ep # None
              /\ mappings' = Append(mappings,
                   [external_endpoint |-> ext_ep,
                    internal_endpoint |-> int_ep[1],
                    param_mapping |->
                      Get(manual, "param_mapping",
                          _auto_map_parameters(ext_ep, int_ep[1]))])
  /\ ext_idx' = ext_idx + 1
  /\ UNCHANGED <<script, external_endpoints, internal_endpoints,
                 manual_mappings, calls, pc>>
  /\ UNCHANGED <<paramVars, spliceVars, injectVars, runVars, agentVars>>

\* mutant: no "continue" after the override mapping, the automatic branch
\* runs as well
MapManual_NoContinue ==
  /\ InLoop(Delegate) /\ HasManual
  /\ LET manual == manual_mappings[ext_ep.operation_id] IN
       /\ "internal_operation_id" \in DOMAIN manual
       /\ LET int_ep == _find_endpoint_by_operation_id(
                          internal_endpoints, manual.internal_operation_id)
              best   == _find_best_match(ext_ep, internal_endpoints)
              first  == Append(mappings,
                          [external_endpoint |-> ext_ep,
                           internal_endpoint |-> int_ep[1],
                           param_mapping |-> Get(manual, "param_mapping", <<>>)])
          IN  /\ int_ep # None
              /\ mappings' =
                   IF best # None
                   THEN Append(first,
                          [external_endpoint |-> ext_ep,
                           internal_endpoint |-> best[1],
                           param_mapping |-> _auto_map_parameters(ext_ep, best[1])])
                   ELSE first
  /\ calls' = Append(calls, ext_ep)
  /\ ext_idx' = ext_idx + 1
  /\ UNCHANGED <<script, external_endpoints, internal_endpoints,
                 manual_mappings, pc>>
  /\ UNCHANGED <<paramVars, spliceVars, injectVars, runVars, agentVars>>

\* map_endpoints, manual branch: the named internal endpoint is found
MapManual ==
  /\ InLoop(Delegate) /\ HasManual
  /\ LET manual == manual_mappings[ext_ep.operation_id] IN
       /\ "internal_operation_id" \in DOMAIN manual
       /\ LET int_ep == _find_endpoint_by_operation_id(
                          internal_endpoints, manual.internal_operation_id)
          IN  /\ int_ep # None
              /\ mappings' = Append(mappings,
                   [external_endpoint |-> ext_ep,
                    internal_endpoint |-> int_ep[1],
                    param_mapping |-> Get(manual, "param_mapping", <<>>)])
  /\ ext_idx' = ext_idx + 1
  /\ UNCHANGED <<script, external_endpoints, internal_endpoints,
                 manual_mappings, pc, calls>>
  /\ UNCHANGED <<paramVars, spliceVars, injectVars, runVars, agentVars>>

\* mutant: an absent override target falls through to the heuristics
MapManualAbsent_FallThrough ==
  /\ InLoop(Delegate) /\ HasManual
  /\ LET manual == manual_mappings[ext_ep.operation_id] IN
       /\ "internal_operation_id" \in DOMAIN manual
       /\ _find_endpoint_by_operation_id(
            internal_endpoints, manual.internal_operation_id) = None
  /\ calls' = Append(calls, ext_ep)
  /\ LET best == _find_best_match(ext_ep, internal_endpoints) IN
       mappings' =
         IF best # None
         THEN Append(mappings,
                [external_endpoint |-> ext_ep,
                 internal_endpoint |-> best[1],
                 param_mapping |-> _auto_map_parameters(ext_ep, best[1])])
         ELSE mappings
  /\ ext_idx' = ext_idx + 1
  /\ UNCHANGED <<script, external_endpoints, internal_endpoints,
                 manual_mappings, pc>>
  /\ UNCHANGED <<paramVars, spliceVars, injectVars, runVars, agentVars>>

\* map_endpoints, manual branch: the named internal endpoint is absent
MapManualAbsent ==
  /\ InLoop(Delegate) /\ HasManual
  /\ LET manual == manual_mappings[ext_ep.operation_id] IN
       /\ "internal_operation_id" \in DOMAIN manual
       /\ _find_endpoint_by_operation_id(
            internal_endpoints, manual.internal_operation_id) = None
  /\ ext_idx' = ext_idx + 1
  /\ UNCHANGED <<script, external_endpoints, internal_endpoints,
                 manual_mappings, mappings, pc, calls>>
  /\ UNCHANGED <<paramVars, spliceVars, injectVars, runVars, agentVars>>

\* map_endpoints, manual branch: manual['internal_operation_id'] raises KeyError
MapManualKeyError ==
  /\ InLoop(Delegate) /\ HasManual
  /\ "internal_operation_id" \notin DOMAIN manual_mappings[ext_ep.operation_id]
  /\ pc' = "raised"
  /\ UNCHANGED <<script, external_endpoints, internal_endpoints,
                 manual_mappings, mappings, ext_idx, calls>>
  /\ UNCHANGED <<paramVars, spliceVars, injectVars, runVars, agentVars>>

\* map_endpoints, automatic branch with a match
MapAuto ==
  /\ InLoop(Delegate) /\ ~HasManual
  /\ calls' = Append(calls, ext_ep)
  /\ LET int_ep == _find_best_match(ext_ep, internal_endpoints) IN
       /\ int_ep # None
       /\ mappings' = Append(mappings,
            [external_endpoint |-> ext_ep,
             internal_endpoint |-> int_ep[1],
             param_mapping |-> _auto_map_parameters(ext_ep, int_ep[1])])
  /\ ext_idx' = ext_idx + 1
  /\ UNCHANGED <<script, external_endpoints, internal_endpoints,
                 manual_mappings, pc>>
  /\ UNCHANGED <<paramVars, spliceVars, injectVars, runVars, agentVars>>

\* map_endpoints, automatic branch without a match
MapAutoNone ==
  /\ InLoop(Delegate) /\ ~HasManual
  /\ calls' = Append(calls, ext_ep)
  /\ _find_best_match(ext_ep, internal_endpoints) = None
  /\ ext_idx' = ext_idx + 1
  /\ UNCHANGED <<script, external_endpoints, internal_endpoints,
                 manual_mappings, mappings, pc>>
  /\ UNCHANGED <<paramVars, spliceVars, injectVars, runVars, agentVars>>

\* generator_01211133 map_endpoints: one external operation
GatewayMap ==
  /\ InLoop(Gateway)
  /\ calls' = Append(calls, ext_ep)
  /\ LET internal_mapping == _find_internal_endpoint(
            ext_ep.path, ext_ep.method, ext_ep, internal_endpoints)
     IN  mappings' =
           IF internal_mapping # None
           THEN Append(mappings,
                  [external_endpoint |-> ext_ep,
                   internal_endpoint |-> internal_mapping[1]])
           ELSE mappings
  /\ ext_idx' = ext_idx + 1
  /\ UNCHANGED <<script, external_endpoints, internal_endpoints,
                 manual_mappings, pc>>
  /\ UNCHANGED <<paramVars, spliceVars, injectVars, runVars, agentVars>>

\* return mappings
MapReturn ==
  /\ pc = "loop"
  /\ ext_idx > Len(external_endpoints)
  /\ pc' = "done"
  /\ UNCHANGED <<script, external_endpoints, internal_endpoints,
                 manual_mappings, mappings, ext_idx, calls>>
  /\ UNCHANGED <<paramVars, spliceVars, injectVars, runVars, agentVars>>

NextMap ==
  \/ MapManual
  \/ MapManualAbsent
  \/ MapManualKeyError
  \/ MapAuto
  \/ MapAutoNone
  \/ GatewayMap
  \/ MapReturn

SpecMap == InitMap /\ [][NextMap]_vars

(* ---------------- _auto_map_parameters on its own ---------------- *)
ParamNames == { <<"u","s","e","r","I","d">>, <<"i","d">>, <<"I","d">>, <<"I","D">>, <<"n","a","m","e">>, <<"d">> }

Params == {[name |-> n, location |-> "query", type |-> "string"] : n \in ParamNames}

InitParams ==
  /\ pc = "call"
  /\ ext_parameters \in SeqsUpTo(Params, MaxParams)
  /\ int_parameters \in SeqsUpTo(Params, MaxParams)
  /\ mapping = <<>>
  /\ MapIdle
  /\ SpliceIdle
  /\ InjectIdle
  /\ RunIdle
  /\ AgentIdle

AutoMapParameters ==
  /\ pc = "call"
  /\ mapping' = _auto_map_parameters([parameters |-> ext_parameters],
                                     [parameters |-> int_parameters])
  /\ pc' = "done"
  /\ UNCHANGED <<mapVars, ext_parameters, int_parameters, spliceVars,
                 injectVars, runVars, agentVars>>

NextParams == AutoMapParameters

SpecParams == InitParams /\ [][NextParams]_vars

(* ---------- JavaDelegateInjector (DelegateGenrator.py) ---------- *)
\* Java source text is a sequence of characters in which a keyword or an
\* identifier counts as one character

\* the characters the regular expression class \s matches
IsSpace(c) == c \in {" ", "\n", "\t"}

\* \s* from position p: the position after the run of white space
RECURSIVE SkipSpaces(_, _)
SkipSpaces(s, p) ==
  IF p <= Len(s) /\ IsSpace(s[p]) THEN SkipSpaces(s, p + 1) ELSE p

At(s, p, c) == p >= 1 /\ p <= Len(s) /\ s[p] = c

\* "@Override\s+public\s+ResponseEntity<" at position p: the position after
\* the "<", 0 when it does not match
SignatureHead(s, p) ==
  LET a == SkipSpaces(s, p + 1)
      b == SkipSpaces(s, a + 1)
  IN  IF /\ At(s, p, "@Override")
         /\ a > p + 1 /\ At(s, a, "public")
         /\ b > a + 1 /\ At(s, b, "ResponseEntity")
         /\ At(s, b + 1, "<")
      THEN b + 2
      ELSE 0

\* ">\s+name\s*\([^)]*\)" at position g, followed by "\s*\{" when brace is
\* TRUE: the position after the match, 0 when it does not match
SignatureTail(s, g, name, brace) ==
  LET a == SkipSpaces(s, g + 1)
      b == SkipSpaces(s, a + 1)
      closing == {c \in (b + 1)..Len(s) : s[c] = ")"}
      d == SkipSpaces(s, Min(closing) + 1)
  IN  IF /\ At(s, g, ">")
         /\ a > g + 1 /\ At(s, a, name)
         /\ At(s, b, "(")
         /\ closing # {}
      THEN IF brace
           THEN IF At(s, d, "{") THEN d + 1 ELSE 0
           ELSE Min(closing) + 1
      ELSE 0

\* the pattern at position p; ".*?" takes the shortest run that lets the rest
\* match, and crosses a newline only with re.DOTALL
MatchAt(s, p, name, brace, dotall) ==
  LET q == SignatureHead(s, p)
      ends == {g \in q..Len(s) :
                 /\ SignatureTail(s, g, name, brace) # 0
                 /\ dotall \/ \A k \in q..(g - 1) : s[k] # "\n"}
  IN  IF q = 0 \/ ends = {} THEN 0
      ELSE SignatureTail(s, Min(ends), name, brace)

\* re.search: the match at the leftmost position that has one; the result is
\* match.end() as the position of the first character after the match, 0
\* when there is no match
Search(s, name, brace, dotall) ==
  LET starts == {p \in 1..Len(s) : MatchAt(s, p, name, brace, dotall) # 0}
  IN  IF starts = {} THEN 0 ELSE MatchAt(s, Min(starts), name, brace, dotall)

\* str.join
RECURSIVE Join(_, _)
Join(lines, sep) ==
  IF lines = <<>> THEN <<>>
  ELSE IF Len(lines) = 1 THEN lines[1]
  ELSE lines[1] \o sep \o Join(Tail(lines), sep)

Spaces(n) == [k \in 1..n |-> " "]

\* mutant: every line is prefixed, the blank ones too
_indent_code_PadBlank(code, levels) ==
  LET lines == Split(code, "\n")
  IN  Join([k \in 1..Len(lines) |-> Spaces(4 * levels) \o lines[k]], <<"\n">>)

_indent_code(code, levels) ==
  LET indent == Spaces(4 * levels)
      lines  == Split(code, "\n")
      Strip(line) == \E k \in 1..Len(line) : ~IsSpace(line[k])
  IN  Join([k \in 1..Len(lines) |->
              IF Strip(lines[k]) THEN indent \o lines[k] ELSE <<>>],
           <<"\n">>)

\* position k of s lies inside a string literal / inside a line comment
InLiteral(s, k) ==
  Cardinality({j \in 1..(k - 1) : s[j] = "\""}) % 2 = 1

InComment(s, k) ==
  \E j \in 1..(k - 1) : s[j] = "//" /\ \A m \in j..k : s[m] # "\n"

IsCode(s, k) == ~InLiteral(s, k) /\ ~InComment(s, k)

\* mutant: the scan knows Java and counts only the braces that are code
RECURSIVE ScanBraces_SkipLiterals(_, _, _)
ScanBraces_SkipLiterals(s, i, brace_count) ==
  IF i <= Len(s) /\ brace_count > 0
  THEN ScanBraces_SkipLiterals(s, i + 1,
         IF s[i] = "{" /\ IsCode(s, i) THEN brace_count + 1
         ELSE IF s[i] = "}" /\ IsCode(s, i) THEN brace_count - 1
         ELSE brace_count)
  ELSE i

\* mutant: the scan stops at the first "}" and does not count nested "{"
RECURSIVE ScanBraces_NoNesting(_, _, _)
ScanBraces_NoNesting(s, i, brace_count) ==
  IF i <= Len(s) /\ brace_count > 0
  THEN ScanBraces_NoNesting(s, i + 1,
         IF s[i] = "}" THEN brace_count - 1 ELSE brace_count)
  ELSE i

\* the while loop of _update_existing_method: the value of i when it ends
RECURSIVE ScanBraces(_, _, _)
ScanBraces(s, i, brace_count) ==
  IF i <= Len(s) /\ brace_count > 0
  THEN ScanBraces(s, i + 1,
         IF s[i] = "{" THEN brace_count + 1
         ELSE IF s[i] = "}" THEN brace_count - 1
         ELSE brace_count)
  ELSE i

_update_existing_method(s, name, body) ==
  LET method_start == Search(s, name, TRUE, TRUE)
      method_end   == ScanBraces(s, method_start, 1) - 1
      indented_body == _indent_code(body, 2)
  IN  IF method_start = 0 THEN s
      ELSE SubSeq(s, 1, method_start - 1)
             \o <<"\n">> \o indented_body \o <<"\n", " ", " ", " ", " ">>
             \o SubSeq(s, method_end, Len(s))

(* ---------------- the splice on its own ---------------- *)
\* text before the target method
Prefixes ==
  { <<>>,
    <<"class", " ", "C", " ", "{", "\n">>,
    <<"class", " ", "C", " ", "{", "\n",
      "@Override", " ", "public", " ", "ResponseEntity", "<", "A", ">", " ",
      "bar", "(", ")", " ", "{", " ", "x", " ", "}", "\n">> }

\* the target method up to its opening brace
Headers ==
  { <<"@Override", "\n", " ", "public", " ", "ResponseEntity", "<", "User", ">",
      " ", "foo", "(", "String", " ", "id", ")", " ", "{">>,
    <<"@Override", " ", "public", " ", "ResponseEntity", "<", "?", ">",
      "\n", "foo", "(", ")", "{">>,
    <<"@Override", " ", "public", " ", "ResponseEntity", "<", "User", ">",
      " ", "foo", "(", ")", " ", "throws", " ", "E", " ", "{">>,
    <<"public", " ", "Object", " ", "foo", "(", ")", " ", "{">> }

BodyChars == {"{", "}", "x", "\n"}

\* text after the body
Suffixes ==
  { <<>>,
    <<"}">>,
    <<"}", "\n", " ", "void", " ", "baz", "(", ")", " ", "{", " ", "}", "\n", "}", "\n">> }

\* bodies with a brace in a string literal or in a comment, each with the
\* closing brace of the method
LiteralBodies ==
  { <<"log", "(", "\"", "}", "\"", ")", ";", " ", "}">>,
    <<"s", "=", "\"", "{", "\"", ";", "}">>,
    <<"s", "=", "\"", "{", "}", "\"", ";", "}">>,
    <<"//", " ", "}", "\n", "x", ";", "}">> }

Sources ==
  {p \o h \o b \o t :
     p \in Prefixes, h \in Headers,
     b \in SeqsUpTo(BodyChars, MaxBody) \cup LiteralBodies,
     t \in Suffixes}

NewBodies ==
  { <<>>,
    <<"return", " ", "null", ";">>,
    <<"x", ";", "\n", "\n", " ", "y", ";">>,
    <<" ", "\n", "if", " ", "{", "x", "}">>,
    <<"}">> }

InitSplice ==
  /\ pc = "call"
  /\ content \in Sources
  /\ method_name = "foo"
  /\ new_body \in NewBodies
  /\ new_content = <<>>
  /\ MapIdle
  /\ ParamIdle
  /\ InjectIdle
  /\ RunIdle
  /\ AgentIdle

UpdateExistingMethod ==
  /\ pc = "call"
  /\ new_content' = _update_existing_method(content, method_name, new_body)
  /\ pc' = "done"
  /\ UNCHANGED <<mapVars, paramVars, content, method_name, new_body,
                 injectVars, runVars, agentVars>>

NextSplice == UpdateExistingMethod

SpecSplice == InitSplice /\ [][NextSplice]_vars

(* ------- inject_method (DelegateGenrator.py), merge_method (gptGenerator.py) ------- *)
Max(S) == CHOOSE m \in S : \A n \in S : m >= n

\* str.rfind(c) as a position counted from 1, 0 when c does not occur
RFind(s, c) ==
  LET at == {k \in 1..Len(s) : s[k] = c}
  IN  IF at = {} THEN 0 ELSE Max(at)

\* a parameter whose location is neither path, query nor body is left out
_build_signature(name, params, rtype) ==
  LET Decl(p) ==
        IF p.location = "path"
        THEN <<"@PathVariable", " ", "String", " ">> \o p.name
        ELSE IF p.location = "query"
        THEN <<"@RequestParam", " ", "String", " ">> \o p.name
        ELSE <<"@RequestBody", " ", p.type, " ">> \o p.name
      known == SelectSeq(params,
                 LAMBDA p : p.location \in {"path", "query", "body"})
      param_str == Join([k \in 1..Len(known) |-> Decl(known[k])], <<",", " ">>)
      response_type == IF rtype # "" THEN rtype ELSE "?"
  IN  <<"@Override", "\n", " ", " ", " ", " ", "public", " ",
        "ResponseEntity", "<", response_type, ">", " ", name, "(">>
        \o param_str \o <<")">>

\* the method block _add_new_method builds from signature and body
MethodBlock(signature, body) ==
  <<"\n", " ", " ", " ", " ">> \o signature \o <<" ", "{", "\n">>
    \o _indent_code(body, 2) \o <<"\n", " ", " ", " ", " ", "}", "\n">>

\* mutant: the method block is put after the last closing brace
_add_new_method_AfterBrace(s, signature, body) ==
  LET last_brace == RFind(s, "}")
  IN  SubSeq(s, 1, last_brace) \o MethodBlock(signature, body) \o <<"\n">>
        \o SubSeq(s, last_brace + 1, Len(s))

\* _add_new_method when the content has a "}"; without one it raises
\* ValueError (InjectMethodRaise)
_add_new_method(s, signature, body) ==
  LET last_brace == RFind(s, "}")
  IN  SubSeq(s, 1, last_brace - 1) \o MethodBlock(signature, body) \o <<"\n">>
        \o SubSeq(s, last_brace, Len(s))

\* the content inject_method writes
inject_method(s, name, params, rtype, body) ==
  IF Search(s, name, FALSE, FALSE) # 0
  THEN _update_existing_method(s, name, body)
  ELSE _add_new_method(s, _build_signature(name, params, rtype), body)

\* inject_method raises: no signature of the method and no "}" in the file
InjectRaises(s, name) ==
  Search(s, name, FALSE, FALSE) = 0 /\ RFind(s, "}") = 0

\* str.strip()
StrStrip(s) ==
  LET keep == {k \in 1..Len(s) : ~IsSpace(s[k])}
  IN  IF keep = {} THEN <<>> ELSE SubSeq(s, Min(keep), Max(keep))

\* textwrap.indent(text, prefix): a line of white space alone is kept as it is
textwrap_indent(text, prefix) ==
  LET lines == Split(text, "\n")
  IN  Join([k \in 1..Len(lines) |->
              IF \E j \in 1..Len(lines[k]) : ~IsSpace(lines[k][j])
              THEN prefix \o lines[k] ELSE lines[k]],
           <<"\n">>)

\* "\n\s*\}" after the opening brace at position open: the positions of the
\* newline
BodyEnds(s, open) ==
  {n \in (open + 1)..Len(s) :
     s[n] = "\n" /\ At(s, SkipSpaces(s, n + 1), "}")}

\* "\)\s*\{(.*?)(\n\s*\})" after "name\(" with name at position f: the
\* positions of the ")" with which the rest of the pattern matches
MergeCloses(s, f) ==
  {c \in (f + 2)..Len(s) :
     /\ s[c] = ")"
     /\ At(s, SkipSpaces(s, c + 1), "{")
     /\ BodyEnds(s, SkipSpaces(s, c + 1)) # {}}

\* " name\(.*?\)\s*\{(.*?)(\n\s*\})" with name at position f
MergeNameAt(s, f, name) ==
  /\ At(s, f - 1, " ") /\ At(s, f, name) /\ At(s, f + 1, "(")
  /\ MergeCloses(s, f) # {}

\* pattern.search of merge_method, with re.S: the leftmost "public ", the
\* greedy ".*" up to the last " name(" that lets the rest match, the lazy
\* ".*?" up to the first ")" and the lazy body up to the first "\n\s*}".
\* None when there is no match, else the end of group 1 and the start of
\* group 3
MergeSearch(s, name) ==
  LET Names(p) == {f \in (p + 3)..Len(s) : MergeNameAt(s, f, name)}
      starts == {p \in 1..Len(s) :
                   At(s, p, "public") /\ At(s, p + 1, " ") /\ Names(p) # {}}
  IN  IF starts = {} THEN None
      ELSE LET f == Max(Names(Min(starts)))
               open == SkipSpaces(s, Min(MergeCloses(s, f)) + 1)
           IN  Some([start |-> Min(starts), group1_end |-> open,
                     group3_start |-> Min(BodyEnds(s, open))])

\* the text merge_method writes when the pattern matches
merge_method(s, name, body) ==
  LET m == MergeSearch(s, name)[1]
  IN  SubSeq(s, 1, m.group1_end) \o <<"\n">>
        \o textwrap_indent(StrStrip(body), Spaces(8))
        \o SubSeq(s, m.group3_start, Len(s))

(* ---------------- the splicers on a file ---------------- *)
\* the spec's scenario: class C { public Object foo() { return 1; } }
ScenarioSource ==
  <<"class", " ", "C", " ", "{", " ", "public", " ", "Object", " ", "foo",
    "(", ")", " ", "{", " ", "return", " ", "1", ";", " ", "}", " ", "}">>

\* files without the target method
NoMethodSources ==
  { <<>>,
    <<"class", " ", "C", " ", "{">>,
    <<"class", " ", "C", " ", "{", "\n", "}", "\n">>,
    <<"class", " ", "C", " ", "{", "\n",
      "@Override", " ", "public", " ", "ResponseEntity", "<", "A", ">", " ",
      "bar", "(", ")", " ", "{", "\n", "x", ";", "\n", "}", "\n", "}">> }

\* one method of a class with a closing brace on a line of its own
Method(params, stmt) ==
  <<" ", "@Override", "\n", " ", "public", " ", "ResponseEntity", "<", "User",
    ">", " ", "foo", "(">> \o params
    \o <<")", " ", "{", "\n", " ", stmt, ";", "\n", " ", "}", "\n">>

\* files with two methods named foo
OverloadSources ==
  { <<"class", " ", "C", " ", "{", "\n">>
      \o Method(<<"String", " ", "id">>, "a") \o sep \o Method(<<>>, "b")
      \o <<"}", "\n">> :
    sep \in { <<>>, <<"int", " ", "n", ";", "\n">> } }

\* bodies of the target method before the call
OldBodies ==
  { <<>>,
    <<" ", "x", ";", " ">>,
    <<"\n", " ", "x", ";", "\n", " ">>,
    <<"{", "x", "}", "\n">>,
    <<"{", "x">>,
    <<"x", "}", "\n">>,
    <<"\n", " ", "if", " ", "{", "\n", " ", "x", ";", "\n", " ", "}", "\n">> }

InjectSources ==
  {p \o h \o b \o t :
     p \in Prefixes, h \in Headers, b \in OldBodies, t \in Suffixes}
    \cup {ScenarioSource} \cup NoMethodSources \cup OverloadSources

InjectMethod == "inject_method"
MergeMethod == "merge_method"

InitInject ==
  /\ pc = "call"
  /\ splicer \in {InjectMethod, MergeMethod}
  /\ java_source \in InjectSources
  /\ java_file = java_source
  /\ method_name = "foo"
  /\ new_body \in NewBodies
  /\ \E sig \in {<< <<>>, "" >>, << <<P_userId, P_body>>, "User" >>} :
       /\ inject_parameters = sig[1]
       /\ return_type = sig[2]
       /\ splicer = MergeMethod => sig[1] = <<>>
  /\ writes = <<>>
  /\ error = None
  /\ content = <<>> /\ new_content = <<>>
  /\ MapIdle
  /\ ParamIdle
  /\ RunIdle
  /\ AgentIdle

\* the first call, or the second call with the same arguments
Calling(s) == pc \in {"call", "again"} /\ splicer = s
AfterCall == IF pc = "call" THEN "again" ELSE "done"

\* inject_method: read the file, update or append, write the file
InjectMethodWrite ==
  /\ Calling(InjectMethod)
  /\ ~InjectRaises(java_file, method_name)
  /\ java_file' = inject_method(java_file, method_name, inject_parameters,
                                return_type, new_body)
  /\ writes' = Append(writes, java_file')
  /\ pc' = AfterCall
  /\ UNCHANGED <<mapVars, paramVars, spliceVars, runVars, agentVars>>
  /\ UNCHANGED <<splicer, java_source, inject_parameters, return_type, error>>

\* inject_method: _add_new_method raises ValueError before the write
InjectMethodRaise ==
  /\ Calling(InjectMethod)
  /\ InjectRaises(java_file, method_name)
  /\ error' = Some("ValueError")
  /\ pc' = "raised"
  /\ UNCHANGED <<mapVars, paramVars, spliceVars, runVars, agentVars>>
  /\ UNCHANGED <<splicer, java_source, java_file, inject_parameters,
                 return_type, writes>>

\* merge_method: the pattern matches
MergeMethodWrite ==
  /\ Calling(MergeMethod)
  /\ MergeSearch(java_file, method_name) # None
  /\ java_file' = merge_method(java_file, method_name, new_body)
  /\ writes' = Append(writes, java_file')
  /\ pc' = AfterCall
  /\ UNCHANGED <<mapVars, paramVars, spliceVars, runVars, agentVars>>
  /\ UNCHANGED <<splicer, java_source, inject_parameters, return_type, error>>

\* merge_method: no match, RuntimeError before the write
MergeMethodRaise ==
  /\ Calling(MergeMethod)
  /\ MergeSearch(java_file, method_name) = None
  /\ error' = Some("RuntimeError")
  /\ pc' = "raised"
  /\ UNCHANGED <<mapVars, paramVars, spliceVars, runVars, agentVars>>
  /\ UNCHANGED <<splicer, java_source, java_file, inject_parameters,
                 return_type, writes>>

NextInject ==
  \/ InjectMethodWrite
  \/ InjectMethodRaise
  \/ MergeMethodWrite
  \/ MergeMethodRaise

SpecInject == InitInject /\ [][NextInject]_vars

(* ---------------- the driving scripts ---------------- *)
SBA == "SpringBootAutomation"
GPT == "gptGenerator"
SG  == "ServiceGenerator"
ABG == "APIBridgeGenerator"

\* an oracle call, a subprocess run, a write or a read of the input documents
Event(kind, what, result) == [kind |-> kind, what |-> what, result |-> result]

AllOk(oks) == \A k \in 1..Len(oks) : oks[k]

\* str.capitalize()
Capitalize(s) ==
  [k \in 1..Len(s) |->
     IF k = 1
     THEN IF \E u \in DOMAIN ToLower : ToLower[u] = s[1]
          THEN CHOOSE u \in DOMAIN ToLower : ToLower[u] = s[1]
          ELSE s[1]
     ELSE IF s[k] \in DOMAIN ToLower THEN ToLower[s[k]] ELSE s[k]]

\* f"{ext_ep.tag.capitalize()}ApiDelegateImpl"
ClassName(tag) == Capitalize(tag) \o <<"A","p","i","D","e","l","e","g","a","t","e","I","m","p","l">>

\* an operation id as the one character it is in Java source text
Ident ==
  (<<"g","e","t","U","s","e","r","B","y","I","d">> :> "getUserById") @@ (<<"c","r","e","a","t","e","U","s","e","r">> :> "createUser")
    @@ (<<"l","i","s","t","O","r","d","e","r","s">> :> "listOrders")

\* re.sub(fence + r'\n?', '', code); "~~~" stands for the three backquotes
\* of a code fence
RECURSIVE RemoveFence(_, _)
RemoveFence(code, fence) ==
  IF code = <<>> THEN <<>>
  ELSE IF code[1] = fence
  THEN IF Len(code) > 1 /\ code[2] = "\n"
       THEN RemoveFence(SubSeq(code, 3, Len(code)), fence)
       ELSE RemoveFence(Tail(code), fence)
  ELSE <<code[1]>> \o RemoveFence(Tail(code), fence)

\* re.match(r'(public|private|protected|@Override).*\(.*\).*\{?$', stripped)
IsSignatureLine(stripped) ==
  /\ stripped # <<>>
  /\ stripped[1] \in {"public", "private", "protected", "@Override"}
  /\ \E i, j \in 2..Len(stripped) :
       i < j /\ stripped[i] = "(" /\ stripped[j] = ")"

\* the loop of _clean_generated_code over the lines from k on
RECURSIVE FilterLines(_, _, _)
FilterLines(lines, k, skip) ==
  IF k > Len(lines) THEN <<>>
  ELSE LET stripped == StrStrip(lines[k])
           brace == \E i \in 1..Len(stripped) : stripped[i] = "{"
       IN  IF IsSignatureLine(stripped)
           THEN FilterLines(lines, k + 1, ~brace)
           ELSE IF skip /\ brace
           THEN FilterLines(lines, k + 1, FALSE)
           ELSE IF ~skip
           THEN <<lines[k]>> \o FilterLines(lines, k + 1, skip)
           ELSE FilterLines(lines, k + 1, skip)

_clean_generated_code(code) ==
  LET unfenced == RemoveFence(RemoveFence(code, "~~~java"), "~~~")
      lines == Split(unfenced, "\n")
  IN  StrStrip(Join(FilterLines(lines, 1, FALSE), <<"\n">>))

\* what the completion service answers
Completions ==
  { <<"return", " ", "null", ";">>,
    <<"~~~java", "\n", "public", " ", "ResponseEntity", "<", "User", ">", " ",
      "m", "(", ")", "\n", "{", "\n", " ", " ", "return", " ", "null", ";",
      "\n", "}", "\n", "~~~">> }

_generate_fallback(mp) ==
  LET ext == mp.external_endpoint
      internal == mp.internal_endpoint
  IN  <<"log.debug", "(", "\"Handling ", ext.method, " request for ">>
        \o ext.path
        \o <<"\"", ")", ";", "\n", "\n", "// Build internal API URL", "\n",
             "String url = internalBaseUrl + ", "\"">>
        \o internal.path
        \o <<"\"", ";", "\n", "\n",
             "// TODO: Map parameters and make WebClient call", "\n",
             "throw new UnsupportedOperationException", "(",
             "\"Implementation pending for ">>
        \o ext.operation_id \o <<"\"", ")", ";">>

\* delegate classes as the scaffolding left them
ClassFile == <<"public", " ", "class", " ", "C", " ", "{", "\n", "}", "\n">>
NoBraceFile == <<"public", " ", "class", " ", "C", " ", "{", "\n">>
WithMethodFile ==
  <<"public", " ", "class", " ", "C", " ", "{", "\n",
    " ", "@Override", "\n", " ", "public", " ", "ResponseEntity", "<", "User",
    ">", " ", "getUserById", "(", "String", " ", "userId", ")", " ", "{", "\n",
    " ", "return", " ", "null", ";", "\n", " ", "}", "\n", "}", "\n">>

\* the delegate directory: a class file may be missing
Dir(u, o) ==
  LET users == ClassName(<<"u","s","e","r","s">>)
      orders == ClassName(<<"o","r","d","e","r","s">>)
  IN  [c \in (IF u = None THEN {} ELSE {users})
               \cup (IF o = None THEN {} ELSE {orders}) |->
         IF c = users THEN u[1] ELSE o[1]]

DelegateDirs ==
  {Dir(u, o) :
     u \in {None, Some(ClassFile), Some(NoBraceFile), Some(WithMethodFile)},
     o \in {None, Some(ClassFile)}}

\* internal catalogs and override tables of the runs
RunInternal ==
  { <<>>,
    <<[path |-> <<"/","i","n","t","e","r","n","a","l","/","v","1","/","u","s","e","r","s","/","{","i","d","}">>, method |-> "GET",
       operation_id |-> <<"f","e","t","c","h","U","s","e","r","B","y","I","d">>, parameters |-> <<P_id>>],
      [path |-> <<"/","v","1","/","o","r","d","e","r","s">>, method |-> "GET",
       operation_id |-> <<"f","e","t","c","h","O","r","d","e","r","s">>, parameters |-> <<>>]>>,
    <<[path |-> <<"/","i","n","t","e","r","n","a","l","/","v","1","/","u","s","e","r","s">>, method |-> "POST",
       operation_id |-> <<"r","e","g","i","s","t","e","r","U","s","e","r">>, parameters |-> <<P_body>>]>> }

RunMappingFiles == { <<>>, <<O_getUser>>, <<O_getUserLower, O_noTarget>> }

\* per input document whether it can be read and parsed: SpringBootAutomation
\* and APIBridgeGenerator take two, ServiceGenerator one external and up to
\* two internal ones, gptGenerator reads none itself
SpecInputs(d) ==
  IF d = GPT THEN {<<>>}
  ELSE IF d = SG THEN {q \in SeqsUpTo(BOOLEAN, 3) : q # <<>>}
  ELSE {q \in SeqsUpTo(BOOLEAN, 2) : Len(q) = 2}

InitRun ==
  /\ pc = "init"
  /\ driver \in {SBA, GPT, SG, ABG}
  /\ specs_ok \in SpecInputs(driver)
  /\ script = Delegate
  /\ IF driver = SBA /\ AllOk(specs_ok)
     THEN /\ external_endpoints \in Catalogs(ExtEndpoints, MaxExt)
          /\ internal_endpoints \in RunInternal
          /\ manual_mappings \in {BuildManual(f) : f \in RunMappingFiles}
          /\ delegate_files \in DelegateDirs
     ELSE /\ external_endpoints = <<>> /\ internal_endpoints = <<>>
          /\ manual_mappings = <<>>
          /\ delegate_files = <<>>
  /\ mappings = <<>> /\ ext_idx = 1 /\ calls = <<>>
  /\ run_idx = 1 /\ method_body = <<>>
  /\ generated_count = 0 /\ failed_count = 0
  /\ events = <<>> /\ summary = <<>>
  /\ ParamIdle
  /\ SpliceIdle
  /\ InjectIdle
  /\ AgentIdle

At_(d, where) == driver = d /\ pc = where

\* SpringBootAutomation.__init__: both documents are parsed, then the output
\* directory is made
SbaInit ==
  /\ At_(SBA, "init")
  /\ AllOk(specs_ok)
  /\ events' = Append(events, Event("mkdir", "output_dir", "ok"))
  /\ pc' = "loop"
  /\ UNCHANGED <<mapVars, paramVars, spliceVars, injectVars, agentVars>>
  /\ UNCHANGED <<driver, specs_ok, run_idx, method_body, delegate_files,
                 generated_count, failed_count, summary>>

\* SpringBootAutomation.__init__: OASParser raises
SbaInitRaise ==
  /\ At_(SBA, "init")
  /\ ~AllOk(specs_ok)
  /\ pc' = "raised"
  /\ UNCHANGED <<mapVars, paramVars, spliceVars, injectVars, runVars, agentVars>>

\* run: map_endpoints has returned, the counters are set
RunEnter ==
  /\ At_(SBA, "done")
  /\ generated_count' = 0 /\ failed_count' = 0
  /\ run_idx' = 1
  /\ pc' = "generate"
  /\ UNCHANGED <<mapVars, paramVars, spliceVars, injectVars, agentVars>>
  /\ UNCHANGED <<driver, specs_ok, method_body, delegate_files, events,
                 summary>>

InRun(where) == At_(SBA, where) /\ run_idx <= Len(mappings)

\* generate_method_body: the completion call returns
RunGenerate ==
  /\ InRun("generate")
  /\ \E code \in Completions : method_body' = _clean_generated_code(code)
  /\ events' = Append(events, Event("oracle", "completion", "ok"))
  /\ pc' = "inject"
  /\ UNCHANGED <<mapVars, paramVars, spliceVars, injectVars, agentVars>>
  /\ UNCHANGED <<driver, specs_ok, run_idx, delegate_files, generated_count,
                 failed_count, summary>>

\* mutant: an oracle failure is not caught in generate_method_body and
\* reaches the handler of the loop
RunGenerateFallback_Uncaught ==
  /\ InRun("generate")
  /\ events' = Append(events, Event("oracle", "completion", "raised"))
  /\ failed_count' = failed_count + 1
  /\ run_idx' = run_idx + 1
  /\ UNCHANGED <<mapVars, paramVars, spliceVars, injectVars, agentVars>>
  /\ UNCHANGED <<pc, driver, specs_ok, method_body, delegate_files,
                 generated_count, summary>>

\* generate_method_body: the completion call raises
RunGenerateFallback ==
  /\ InRun("generate")
  /\ method_body' = _generate_fallback(mappings[run_idx])
  /\ events' = Append(events, Event("oracle", "completion", "raised"))
  /\ pc' = "inject"
  /\ UNCHANGED <<mapVars, paramVars, spliceVars, injectVars, agentVars>>
  /\ UNCHANGED <<driver, specs_ok, run_idx, delegate_files, generated_count,
                 failed_count, summary>>

\* the class file of the current mapping is there and inject_method does not
\* raise on it
CanInject(mp) ==
  LET class_name == ClassName(mp.external_endpoint.tag)
  IN  /\ class_name \in DOMAIN delegate_files
      /\ ~InjectRaises(delegate_files[class_name],
                       Ident[mp.external_endpoint.operation_id])

\* the text inject_method writes for the current mapping
Injected(mp, body) ==
  LET e == mp.external_endpoint
  IN  inject_method(delegate_files[ClassName(e.tag)], Ident[e.operation_id],
                    e.parameters,
                    IF e.response_type # "" THEN e.response_type ELSE "?",
                    body)

\* run: inject_method returns
RunInject ==
  /\ InRun("inject")
  /\ CanInject(mappings[run_idx])
  /\ delegate_files' =
       [delegate_files EXCEPT
          ![ClassName(mappings[run_idx].external_endpoint.tag)] =
             Injected(mappings[run_idx], method_body)]
  /\ events' = Append(events, Event("write", "delegate", "ok"))
  /\ generated_count' = generated_count + 1
  /\ run_idx' = run_idx + 1
  /\ pc' = "generate"
  /\ UNCHANGED <<mapVars, paramVars, spliceVars, injectVars, agentVars>>
  /\ UNCHANGED <<driver, specs_ok, method_body, failed_count, summary>>

\* mutant: inject_method opens the class file for writing before it raises
RunInjectFail_Truncated ==
  /\ InRun("inject")
  /\ ~CanInject(mappings[run_idx])
  /\ LET class_name == ClassName(mappings[run_idx].external_endpoint.tag)
     IN  delegate_files' =
           [c \in DOMAIN delegate_files |->
              IF c = class_name THEN <<>> ELSE delegate_files[c]]
  /\ failed_count' = failed_count + 1
  /\ run_idx' = run_idx + 1
  /\ pc' = "generate"
  /\ UNCHANGED <<mapVars, paramVars, spliceVars, injectVars, agentVars>>
  /\ UNCHANGED <<driver, specs_ok, method_body, generated_count, events,
                 summary>>

\* mutant: the success is counted before inject_method is called, so a
\* mapping that fails is in both counters
RunInjectFail_CountedTwice ==
  /\ InRun("inject")
  /\ ~CanInject(mappings[run_idx])
  /\ generated_count' = generated_count + 1
  /\ failed_count' = failed_count + 1
  /\ run_idx' = run_idx + 1
  /\ pc' = "generate"
  /\ UNCHANGED <<mapVars, paramVars, spliceVars, injectVars, agentVars>>
  /\ UNCHANGED <<driver, specs_ok, method_body, delegate_files, events,
                 summary>>

\* run: inject_method raises FileNotFoundError or ValueError
RunInjectFail ==
  /\ InRun("inject")
  /\ ~CanInject(mappings[run_idx])
  /\ failed_count' = failed_count + 1
  /\ run_idx' = run_idx + 1
  /\ pc' = "generate"
  /\ UNCHANGED <<mapVars, paramVars, spliceVars, injectVars, agentVars>>
  /\ UNCHANGED <<driver, specs_ok, method_body, delegate_files,
                 generated_count, events, summary>>

\* run: the summary prints generated_count and failed_count
RunSummary ==
  /\ At_(SBA, "generate")
  /\ run_idx > Len(mappings)
  /\ summary' = Some([generated |-> generated_count, failed |-> failed_count])
  /\ pc' = "summary"
  /\ UNCHANGED <<mapVars, paramVars, spliceVars, injectVars, agentVars>>
  /\ UNCHANGED <<driver, specs_ok, run_idx, method_body, delegate_files,
                 generated_count, failed_count, events>>

(* gptGenerator.main *)
\* one generated delegate method with its closing brace on a line of its own
GptMethod(name) ==
  <<" ", "public", " ", "ResponseEntity", "<", "User", ">", " ", name, "(",
    "String", " ", "id", ")", " ", "{", "\n", " ", "return", " ", "null", ";",
    "\n", " ", "}", "\n">>

\* what rglob("*DelegateImpl.java") finds after the scaffolding: no file, a
\* class with foo and bar, a class with foo alone
GptDelegates ==
  { None,
    Some(<<"class", " ", "C", " ", "{", "\n">> \o GptMethod("foo")
           \o GptMethod("bar") \o <<"}", "\n">>),
    Some(<<"class", " ", "C", " ", "{", "\n">> \o GptMethod("foo")
           \o <<"}", "\n">>) }

\* the "endpoints" dict of the mapping file, in order
GptMappings ==
  { <<>>, <<[method |-> "foo"]>>, <<[method |-> "foo"], [method |-> "bar"]>> }

\* the shell commands of generate_spring and generate_internal_client
GptCommands == <<"generate_spring", "generate_internal_client", "cp">>

\* ensure_generator
GptInit ==
  /\ At_(GPT, "init")
  /\ \E ok \in BOOLEAN :
       /\ events' = Append(events, Event("download", "generator_jar",
                                         IF ok THEN "ok" ELSE "raised"))
       /\ pc' = IF ok THEN "scaffold" ELSE "raised"
  /\ run_idx' = 1
  /\ UNCHANGED <<mapVars, paramVars, spliceVars, injectVars, agentVars>>
  /\ UNCHANGED <<driver, specs_ok, method_body, delegate_files,
                 generated_count, failed_count, summary>>

\* run(cmd): subprocess.run with check=True
GptRun ==
  /\ At_(GPT, "scaffold")
  /\ run_idx <= Len(GptCommands)
  /\ \E exit \in {"0", "1"} :
       /\ events' = Append(events, Event("subprocess", GptCommands[run_idx], exit))
       /\ pc' = IF exit = "0" THEN "scaffold" ELSE "raised"
  /\ run_idx' = run_idx + 1
  /\ UNCHANGED <<mapVars, paramVars, spliceVars, injectVars, agentVars>>
  /\ UNCHANGED <<driver, specs_ok, method_body, delegate_files,
                 generated_count, failed_count, summary>>

\* add_webclient_config, load_yaml(MAPPING_FILE), next(rglob(...)): a delegate
\* file is found
GptLoad ==
  /\ At_(GPT, "scaffold")
  /\ run_idx > Len(GptCommands)
  /\ events' = Append(events, Event("write", "WebClientConfig", "ok"))
  /\ mappings' \in GptMappings
  /\ \E f \in GptDelegates \ {None} : delegate_files' = ("delegate" :> f[1])
  /\ run_idx' = 1
  /\ pc' = "llm"
  /\ UNCHANGED <<script, external_endpoints, internal_endpoints,
                 manual_mappings, ext_idx, calls>>
  /\ UNCHANGED <<paramVars, spliceVars, injectVars, agentVars>>
  /\ UNCHANGED <<driver, specs_ok, method_body, generated_count, failed_count,
                 summary>>

\* next(rglob(...)) raises StopIteration: no delegate file
GptLoadRaise ==
  /\ At_(GPT, "scaffold")
  /\ run_idx > Len(GptCommands)
  /\ None \in GptDelegates
  /\ events' = Append(events, Event("write", "WebClientConfig", "ok"))
  /\ mappings' \in GptMappings
  /\ pc' = "raised"
  /\ UNCHANGED <<script, external_endpoints, internal_endpoints,
                 manual_mappings, ext_idx, calls>>
  /\ UNCHANGED <<paramVars, spliceVars, injectVars, agentVars>>
  /\ UNCHANGED <<driver, specs_ok, run_idx, method_body, delegate_files,
                 generated_count, failed_count, summary>>

InGpt(where) == At_(GPT, where) /\ run_idx <= Len(mappings)

\* body = llm(prompt)
GptLlm ==
  /\ InGpt("llm")
  /\ method_body' \in Completions
  /\ events' = Append(events, Event("oracle", "llm", "ok"))
  /\ pc' = "merge"
  /\ UNCHANGED <<mapVars, paramVars, spliceVars, injectVars, agentVars>>
  /\ UNCHANGED <<driver, specs_ok, run_idx, delegate_files, generated_count,
                 failed_count, summary>>

\* llm raises (no JSON in the answer of curl): nothing in main catches it
GptLlmRaise ==
  /\ InGpt("llm")
  /\ events' = Append(events, Event("oracle", "llm", "raised"))
  /\ pc' = "raised"
  /\ UNCHANGED <<mapVars, paramVars, spliceVars, injectVars, agentVars>>
  /\ UNCHANGED <<driver, specs_ok, run_idx, method_body, delegate_files,
                 generated_count, failed_count, summary>>

\* merge_method(delegate, method, body) writes the file
GptMerge ==
  /\ InGpt("merge")
  /\ MergeSearch(delegate_files["delegate"], mappings[run_idx].method) # None
  /\ delegate_files' =
       [delegate_files EXCEPT
          !["delegate"] = merge_method(@, mappings[run_idx].method, method_body)]
  /\ events' = Append(events, Event("write", "delegate", "ok"))
  /\ run_idx' = run_idx + 1
  /\ pc' = "llm"
  /\ UNCHANGED <<mapVars, paramVars, spliceVars, injectVars, agentVars>>
  /\ UNCHANGED <<driver, specs_ok, method_body, generated_count, failed_count,
                 summary>>

\* merge_method raises RuntimeError: nothing in main catches it
GptMergeRaise ==
  /\ InGpt("merge")
  /\ MergeSearch(delegate_files["delegate"], mappings[run_idx].method) = None
  /\ pc' = "raised"
  /\ UNCHANGED <<mapVars, paramVars, spliceVars, injectVars, agentVars>>
  /\ UNCHANGED <<driver, specs_ok, run_idx, method_body, delegate_files,
                 generated_count, failed_count, events, summary>>

\* print("DONE")
GptDone ==
  /\ At_(GPT, "llm")
  /\ run_idx > Len(mappings)
  /\ summary' = Some("DONE")
  /\ pc' = "summary"
  /\ UNCHANGED <<mapVars, paramVars, spliceVars, injectVars, agentVars>>
  /\ UNCHANGED <<driver, specs_ok, run_idx, method_body, delegate_files,
                 generated_count, failed_count, events>>

(* Springboot0121.ServiceGenerator *)
\* ServiceGenerator.__init__: OpenAPIGenerator._verify_installation and
\* LLMService._verify_dependencies leave with sys.exit(1) when the tool or a
\* package is missing
SgInit ==
  /\ At_(SG, "init")
  /\ \E installed \in BOOLEAN :
       /\ events' = Append(events, Event("subprocess", "version",
                                         IF installed THEN "0" ELSE "missing"))
       /\ pc' = IF installed THEN "generate_server" ELSE "exited"
  /\ UNCHANGED <<mapVars, paramVars, spliceVars, injectVars, agentVars>>
  /\ UNCHANGED <<driver, specs_ok, run_idx, method_body, delegate_files,
                 generated_count, failed_count, summary>>

\* generate, step 1: generate_server writes server-config.json and runs the
\* tool; CalledProcessError is logged and raised again
SgGenerateServer ==
  /\ At_(SG, "generate_server")
  /\ \E exit \in {"0", "1"} :
       /\ events' = events \o <<Event("write", "server-config.json", "ok"),
                                Event("subprocess", "generate_server", exit)>>
       /\ pc' = IF exit = "0" THEN "generate_client" ELSE "raised"
  /\ run_idx' = 1
  /\ UNCHANGED <<mapVars, paramVars, spliceVars, injectVars, agentVars>>
  /\ UNCHANGED <<driver, specs_ok, method_body, delegate_files,
                 generated_count, failed_count, summary>>

\* the internal documents: specs_ok without its first entry
InternalApis == Len(specs_ok) - 1

\* generate, step 2: generate_client for one internal document
SgGenerateClient ==
  /\ At_(SG, "generate_client")
  /\ run_idx <= InternalApis
  /\ \E exit \in {"0", "1"} :
       /\ events' = events \o <<Event("write", "client-config.json", "ok"),
                                Event("subprocess", "generate_client", exit)>>
       /\ pc' = IF exit = "0" THEN "generate_client" ELSE "raised"
  /\ run_idx' = run_idx + 1
  /\ UNCHANGED <<mapVars, paramVars, spliceVars, injectVars, agentVars>>
  /\ UNCHANGED <<driver, specs_ok, method_body, delegate_files,
                 generated_count, failed_count, summary>>

\* mutant: a document that cannot be parsed counts as an empty one
SgBuildContext_Lenient ==
  /\ At_(SG, "generate_client")
  /\ run_idx > InternalApis
  /\ events' = Append(events, Event("parse", "_build_context", "ok"))
  /\ pc' = "generate_service_layer"
  /\ UNCHANGED <<mapVars, paramVars, spliceVars, injectVars, agentVars>>
  /\ UNCHANGED <<driver, specs_ok, run_idx, method_body, delegate_files,
                 generated_count, failed_count, summary>>

\* generate, step 3: _build_context opens and parses every document
SgBuildContext ==
  /\ At_(SG, "generate_client")
  /\ run_idx > InternalApis
  /\ events' = Append(events, Event("parse", "_build_context",
                                    IF AllOk(specs_ok) THEN "ok" ELSE "raised"))
  /\ pc' = IF AllOk(specs_ok) THEN "generate_service_layer" ELSE "raised"
  /\ UNCHANGED <<mapVars, paramVars, spliceVars, injectVars, agentVars>>
  /\ UNCHANGED <<driver, specs_ok, run_idx, method_body, delegate_files,
                 generated_count, failed_count, summary>>

\* generate, step 4: generate_service_layer; a failed completion gives the
\* fallback service
SgGenerateServiceLayer ==
  /\ At_(SG, "generate_service_layer")
  /\ \E result \in {"ok", "raised"} :
       events' = Append(events, Event("oracle", "completion", result))
  /\ pc' = "merge"
  /\ UNCHANGED <<mapVars, paramVars, spliceVars, injectVars, agentVars>>
  /\ UNCHANGED <<driver, specs_ok, run_idx, method_body, delegate_files,
                 generated_count, failed_count, summary>>

\* generate, steps 5 and 6: merge writes the project, _validate_project runs
\* mvn when it is there and only warns when it fails
SgMerge ==
  /\ At_(SG, "merge")
  /\ \E mvn \in {<<>>, <<Event("subprocess", "mvn", "0")>>,
                 <<Event("subprocess", "mvn", "1")>>} :
       events' = events \o <<Event("write", "generated-service", "ok")>> \o mvn
  /\ pc' = "done"
  /\ UNCHANGED <<mapVars, paramVars, spliceVars, injectVars, agentVars>>
  /\ UNCHANGED <<driver, specs_ok, run_idx, method_body, delegate_files,
                 generated_count, failed_count, summary>>

(* Openapi.APIBridgeGenerator *)
\* __init__: _load_spec of both documents
AbgInit ==
  /\ At_(ABG, "init")
  /\ events' = Append(events, Event("parse", "_load_spec",
                                    IF AllOk(specs_ok) THEN "ok" ELSE "raised"))
  /\ pc' = IF AllOk(specs_ok) THEN "templates" ELSE "raised"
  /\ UNCHANGED <<mapVars, paramVars, spliceVars, injectVars, agentVars>>
  /\ UNCHANGED <<driver, specs_ok, run_idx, method_body, delegate_files,
                 generated_count, failed_count, summary>>

\* generate, steps 1 to 3: template directories, templates, generator config
AbgTemplates ==
  /\ At_(ABG, "templates")
  /\ events' = events \o <<Event("write", "templates", "ok"),
                           Event("write", "config", "ok")>>
  /\ pc' = "cli"
  /\ UNCHANGED <<mapVars, paramVars, spliceVars, injectVars, agentVars>>
  /\ UNCHANGED <<driver, specs_ok, run_idx, method_body, delegate_files,
                 generated_count, failed_count, summary>>

\* generate, step 4: _run_openapi_generator_cli; any exception is caught and
\* Docker is tried
AbgCli ==
  /\ At_(ABG, "cli")
  /\ \E exit \in {"0", "1", "missing"} :
       /\ events' = Append(events, Event("subprocess", "cli", exit))
       /\ pc' = IF exit = "0" THEN "post" ELSE "docker"
  /\ UNCHANGED <<mapVars, paramVars, spliceVars, injectVars, agentVars>>
  /\ UNCHANGED <<driver, specs_ok, run_idx, method_body, delegate_files,
                 generated_count, failed_count, summary>>

\* mutant: a failure of the Docker run is ignored
AbgDocker_Ignored ==
  /\ At_(ABG, "docker")
  /\ \E exit \in {"0", "1", "missing"} :
       events' = events \o <<Event("write", "copy", "ok"),
                             Event("subprocess", "docker", exit)>>
  /\ pc' = "post"
  /\ UNCHANGED <<mapVars, paramVars, spliceVars, injectVars, agentVars>>
  /\ UNCHANGED <<driver, specs_ok, run_idx, method_body, delegate_files,
                 generated_count, failed_count, summary>>

\* _run_openapi_generator_docker: copies the document, runs Docker; its
\* failure leaves generate
AbgDocker ==
  /\ At_(ABG, "docker")
  /\ \E exit \in {"0", "1", "missing"} :
       /\ events' = events \o <<Event("write", "copy", "ok"),
                                Event("subprocess", "docker", exit)>>
       /\ pc' = IF exit = "0" THEN "post" ELSE "raised"
  /\ UNCHANGED <<mapVars, paramVars, spliceVars, injectVars, agentVars>>
  /\ UNCHANGED <<driver, specs_ok, run_idx, method_body, delegate_files,
                 generated_count, failed_count, summary>>

\* generate, steps 5 and 6: post-processing and verification
AbgPost ==
  /\ At_(ABG, "post")
  /\ events' = Append(events, Event("verify", "_verify_generated_code", "ok"))
  /\ pc' = "done"
  /\ UNCHANGED <<mapVars, paramVars, spliceVars, injectVars, agentVars>>
  /\ UNCHANGED <<driver, specs_ok, run_idx, method_body, delegate_files,
                 generated_count, failed_count, summary>>

\* the mapping pass of SpringBootAutomation.run is EndpointMapper's
NextRun ==
  \/ SbaInit
  \/ SbaInitRaise
  \/ MapManual
  \/ MapManualAbsent
  \/ MapManualKeyError
  \/ MapAuto
  \/ MapAutoNone
  \/ MapReturn
  \/ RunEnter
  \/ RunGenerate
  \/ RunGenerateFallback
  \/ RunInject
  \/ RunInjectFail
  \/ RunSummary
  \/ GptInit
  \/ GptRun
  \/ GptLoad
  \/ GptLoadRaise
  \/ GptLlm
  \/ GptLlmRaise
  \/ GptMerge
  \/ GptMergeRaise
  \/ GptDone
  \/ SgInit
  \/ SgGenerateServer
  \/ SgGenerateClient
  \/ SgBuildContext
  \/ SgGenerateServiceLayer
  \/ SgMerge
  \/ AbgInit
  \/ AbgTemplates
  \/ AbgCli
  \/ AbgDocker
  \/ AbgPost

SpecRun == InitRun /\ [][NextRun]_vars

(* ---------------- the layered generation graph (geminigenerator.py) ---------------- *)
MaxFiles == 2

\* the nodes along the edges of create_spring_gen_graph, from START to END
GraphNodes ==
  <<"planner", "generate_models", "generate_services",
    "generate_controllers", "generate_config">>

\* the 'files' list the completion service answers to a layer prompt, each
\* file by its path
LayerReplies == SeqsUpTo({"UserDTO.java", "pom.xml"}, MaxFiles)

\* app.invoke(inputs): no plan, no files, the edge from START leads to the
\* planner
InitGraph ==
  /\ pc = "planner"
  /\ plan = None
  /\ files = <<>>
  /\ node_trace = <<>>
  /\ raw_output = <<>> /\ agent_calls = 0 /\ spec = <<>>
  /\ MapIdle
  /\ ParamIdle
  /\ SpliceIdle
  /\ InjectIdle
  /\ RunIdle

\* planner_node returns {"plan": GenerationPlan(**plan_data)}
PlannerNode ==
  /\ pc = GraphNodes[1]
  /\ \E plan_data \in {"com.example.api", "com.acme"} : plan' = Some(plan_data)
  /\ node_trace' = Append(node_trace, pc)
  /\ pc' = GraphNodes[2]
  /\ UNCHANGED <<mapVars, paramVars, spliceVars, injectVars, runVars>>
  /\ UNCHANGED <<files, raw_output, agent_calls, spec>>

\* mutant: the node returns the new files alone, which replace the list
LayerGeneratorNode_Replace ==
  /\ \E k \in 2..Len(GraphNodes) :
       /\ pc = GraphNodes[k]
       /\ pc' = IF k < Len(GraphNodes) THEN GraphNodes[k + 1] ELSE "END"
  /\ plan # None
  /\ \E new_files \in LayerReplies : files' = new_files
  /\ node_trace' = Append(node_trace, pc)
  /\ UNCHANGED <<mapVars, paramVars, spliceVars, injectVars, runVars>>
  /\ UNCHANGED <<plan, raw_output, agent_calls, spec>>

\* layer_generator_node for the layer of the current node returns
\* {"files": state['files'] + new_files}; the edge leads to the next node
LayerGeneratorNode ==
  /\ \E k \in 2..Len(GraphNodes) :
       /\ pc = GraphNodes[k]
       /\ pc' = IF k < Len(GraphNodes) THEN GraphNodes[k + 1] ELSE "END"
  /\ plan # None
  /\ \E new_files \in LayerReplies : files' = files \o new_files
  /\ node_trace' = Append(node_trace, pc)
  /\ UNCHANGED <<mapVars, paramVars, spliceVars, injectVars, runVars>>
  /\ UNCHANGED <<plan, raw_output, agent_calls, spec>>

\* call_llm raises in the current node (no JSON in the answer, or an answer
\* that GenerationPlan / GeneratedFile rejects): invoke raises, the state
\* keeps what the earlier nodes returned
NodeRaises ==
  /\ \E k \in 1..Len(GraphNodes) : pc = GraphNodes[k]
  /\ node_trace' = Append(node_trace, pc)
  /\ pc' = "raised"
  /\ UNCHANGED <<mapVars, paramVars, spliceVars, injectVars, runVars>>
  /\ UNCHANGED <<plan, files, raw_output, agent_calls, spec>>

NextGraph ==
  \/ PlannerNode
  \/ LayerGeneratorNode
  \/ NodeRaises

SpecGraph == InitGraph /\ [][NextGraph]_vars

(* ---------------- get_complete_oas (lambda_function.py) ---------------- *)
MaxCalls == 3

\* texts the agent streams back to one call; "k" stands for a key with its
\* colon, "1" for a number
AgentChunks ==
  { <<>>,
    <<"{", "}">>,
    <<"{", "k", "1">>,
    <<"{", "k", "{">>,
    <<"}">>,
    <<"}", "}">>,
    <<",", "k", "1", "}">>,
    <<"k", "1", "}">>,
    <<"{", "k", "\"", "{", "\"", "}">> }

\* json.loads on such a text: the position after the value that starts at i,
\* 0 when there is none; with members, after the members of an object up to
\* its closing brace
RECURSIVE JsonValue(_, _, _)
JsonValue(s, i, members) ==
  IF members
  THEN IF ~At(s, i, "k") THEN 0
       ELSE LET v == JsonValue(s, i + 1, FALSE)
            IN  IF v = 0 THEN 0
                ELSE IF At(s, v, "}") THEN v + 1
                ELSE IF At(s, v, ",") THEN JsonValue(s, v + 1, TRUE)
                ELSE 0
  ELSE IF At(s, i, "1") THEN i + 1
  ELSE IF At(s, i, "\"")
  THEN LET ends == {j \in (i + 1)..Len(s) : s[j] = "\""}
       IN  IF ends = {} THEN 0 ELSE Min(ends) + 1
  ELSE IF At(s, i, "{")
  THEN IF At(s, i + 1, "}") THEN i + 2 ELSE JsonValue(s, i + 1, TRUE)
  ELSE 0

InitOas ==
  /\ pc = "invoke"
  /\ raw_output = <<>>
  /\ agent_calls = 0
  /\ spec = None
  /\ plan = <<>> /\ files = <<>> /\ node_trace = <<>>
  /\ MapIdle
  /\ ParamIdle
  /\ SpliceIdle
  /\ InjectIdle
  /\ RunIdle

\* mutant: the loop goes on while the two counts differ
InvokeAgent_WhileDiffer ==
  /\ pc \in {"invoke", "while"}
  /\ pc = "while" =>
       Cardinality({k \in 1..Len(raw_output) : raw_output[k] = "{"})
         # Cardinality({k \in 1..Len(raw_output) : raw_output[k] = "}"})
  /\ agent_calls < MaxCalls
  /\ \E output_text \in AgentChunks : raw_output' = raw_output \o output_text
  /\ agent_calls' = agent_calls + 1
  /\ pc' = "while"
  /\ UNCHANGED <<mapVars, paramVars, spliceVars, injectVars, runVars>>
  /\ UNCHANGED <<plan, files, node_trace, spec>>

\* invoke_agent, called once before the loop and once in every iteration of
\* "while raw_output.count('{') > raw_output.count('}')"
InvokeAgent ==
  /\ pc \in {"invoke", "while"}
  /\ pc = "while" =>
       Cardinality({k \in 1..Len(raw_output) : raw_output[k] = "{"})
         > Cardinality({k \in 1..Len(raw_output) : raw_output[k] = "}"})
  /\ agent_calls < MaxCalls
  /\ \E output_text \in AgentChunks : raw_output' = raw_output \o output_text
  /\ agent_calls' = agent_calls + 1
  /\ pc' = "while"
  /\ UNCHANGED <<mapVars, paramVars, spliceVars, injectVars, runVars>>
  /\ UNCHANGED <<plan, files, node_trace, spec>>

\* the loop is left: json.loads returns the specification, or raises and
\* the error is raised again
JsonLoads ==
  /\ pc = "while"
  /\ Cardinality({k \in 1..Len(raw_output) : raw_output[k] = "{"})
       <= Cardinality({k \in 1..Len(raw_output) : raw_output[k] = "}"})
  /\ IF JsonValue(raw_output, 1, FALSE) = Len(raw_output) + 1
     THEN spec' = Some(raw_output) /\ pc' = "returned"
     ELSE spec' = spec /\ pc' = "raised"
  /\ UNCHANGED <<mapVars, paramVars, spliceVars, injectVars, runVars>>
  /\ UNCHANGED <<plan, files, node_trace, raw_output, agent_calls>>

NextOas ==
  \/ InvokeAgent
  \/ JsonLoads

SpecOas == InitOas /\ [][NextOas]_vars

(* ================= properties of the mapping pass ================= *)
Done(s) == pc = "done" /\ script = s

ExtIndices == 1..Len(external_endpoints)
IntIndices == 1..Len(internal_endpoints)

\* positions in the result of the mappings of external endpoint e
MappingsOf(e) ==
  {k \in 1..Len(mappings) : mappings[k].external_endpoint = e}

HasOverride(e) == e.operation_id \in DOMAIN manual_mappings

NamesTarget(e) ==
  /\ HasOverride(e)
  /\ "internal_operation_id" \in DOMAIN manual_mappings[e.operation_id]

OverrideTarget(e) == manual_mappings[e.operation_id].internal_operation_id

TargetPresent(e) ==
  \E j \in IntIndices : internal_endpoints[j].operation_id = OverrideTarget(e)

\* internal endpoints with e's operation id, case-insensitively
IdMatches(e) ==
  {j \in IntIndices :
     Lower(internal_endpoints[j].operation_id) = Lower(e.operation_id)}

\* the non-empty segments of a path
Segments(path) == {s \in SetOf(Split(Lower(path), "/")) : s # <<>>}

\* internal endpoints with e's method that share a non-empty segment with e
PathMatches(e) ==
  {j \in IntIndices :
     /\ internal_endpoints[j].method = e.method
     /\ Segments(internal_endpoints[j].path) \cap Segments(e.path) # {}}

\* C1: an external endpoint whose override names a present internal
\* operation id is mapped to the endpoint with that operation id, whatever
\* the heuristics would choose
C1_OverrideWins ==
  Done(Delegate) =>
    \A i \in ExtIndices :
      LET e == external_endpoints[i] IN
        (NamesTarget(e) /\ TargetPresent(e)) =>
          /\ MappingsOf(e) # {}
          /\ \A k \in MappingsOf(e) :
               /\ mappings[k].internal_endpoint.operation_id = OverrideTarget(e)
               /\ mappings[k].internal_endpoint \in SetOf(internal_endpoints)

\* an overridden endpoint was mapped although the heuristics pick another one
C1_Witness ==
  /\ Done(Delegate)
  /\ \E i \in ExtIndices :
       LET e    == external_endpoints[i]
           best == _find_best_match(e, internal_endpoints)
       IN  /\ NamesTarget(e) /\ TargetPresent(e)
           /\ best # None
           /\ best[1].operation_id # OverrideTarget(e)
           /\ \E k \in MappingsOf(e) :
                mappings[k].internal_endpoint # best[1]

\* C2 (as claimed): without override, operation-id match and shared path
\* segment, an external endpoint gets no mapping
C2_NoOverlapNoMapping ==
  Done(Delegate) =>
    \A i \in ExtIndices :
      LET e == external_endpoints[i] IN
        ( /\ ~HasOverride(e)
          /\ IdMatches(e) = {}
          /\ \A j \in IntIndices :
               Segments(internal_endpoints[j].path) \cap Segments(e.path) = {} )
        => MappingsOf(e) = {}

\* C3 (as claimed): an external endpoint with a case-insensitive operation-id
\* match in the internal catalog is mapped to an endpoint with that id,
\* whatever the override table holds
C3_IdMatchAlwaysMapped ==
  Done(Delegate) =>
    \A i \in ExtIndices :
      LET e == external_endpoints[i] IN
        IdMatches(e) # {} =>
          \E k \in MappingsOf(e) :
            Lower(mappings[k].internal_endpoint.operation_id) = Lower(e.operation_id)

\* C3 (amended): the same for external endpoints that have no override
C3_IdMatchMappedWithoutOverride ==
  Done(Delegate) =>
    \A i \in ExtIndices :
      LET e == external_endpoints[i] IN
        (IdMatches(e) # {} /\ ~HasOverride(e)) =>
          /\ MappingsOf(e) # {}
          /\ \A k \in MappingsOf(e) :
               Lower(mappings[k].internal_endpoint.operation_id)
                 = Lower(e.operation_id)

\* an endpoint without override was mapped by operation id although an
\* earlier internal endpoint has its method
C3_Witness ==
  /\ Done(Delegate)
  /\ \E i \in ExtIndices :
       LET e == external_endpoints[i] IN
         /\ ~HasOverride(e)
         /\ IdMatches(e) # {}
         /\ MappingsOf(e) # {}
         /\ \E j \in IntIndices :
              /\ j < Min(IdMatches(e))
              /\ internal_endpoints[j].method = e.method

\* an override names an internal operation id that the catalog lacks
AbsentTarget(e) == NamesTarget(e) /\ ~TargetPresent(e)

\* C4: an external endpoint whose override names an absent internal
\* operation id gets no mapping, is never handed to the heuristic matcher,
\* and map_endpoints does not raise at it
C4_AbsentTargetSkipped ==
  script = Delegate =>
    \A i \in ExtIndices :
      LET e == external_endpoints[i] IN
        AbsentTarget(e) =>
          /\ MappingsOf(e) = {}
          /\ e \notin SetOf(calls)
          /\ ~(pc = "raised" /\ ext_idx = i)

\* the pass went past such an endpoint, for which the heuristics have a match
C4_Witness ==
  /\ Done(Delegate)
  /\ \E i \in ExtIndices :
       /\ AbsentTarget(external_endpoints[i])
       /\ _find_best_match(external_endpoints[i], internal_endpoints) # None

\* C5: a mapping made through an override carries exactly the override's
\* param_mapping, the empty mapping when the override has none; the example
\* override of getUserById yields {userId: id}
C5_OverrideParamMapping ==
  script = Delegate =>
    \A k \in 1..Len(mappings) :
      LET e == mappings[k].external_endpoint IN
        HasOverride(e) =>
          /\ mappings[k].param_mapping =
               IF "param_mapping" \in DOMAIN manual_mappings[e.operation_id]
               THEN manual_mappings[e.operation_id].param_mapping
               ELSE <<>>
          /\ manual_mappings[e.operation_id] = O_getUser =>
               mappings[k].param_mapping = (<<"u","s","e","r","I","d">> :> <<"i","d">>)

\* override mappings were made for getUserById and for an override without
\* param_mapping whose endpoints have parameters to map automatically
C5_Witness ==
  /\ Done(Delegate)
  /\ \E k \in 1..Len(mappings) :
       /\ mappings[k].external_endpoint.operation_id = <<"g","e","t","U","s","e","r","B","y","I","d">>
       /\ mappings[k].internal_endpoint.operation_id = <<"f","e","t","c","h","U","s","e","r","B","y","I","d">>
       /\ mappings[k].param_mapping = (<<"u","s","e","r","I","d">> :> <<"i","d">>)
  /\ \E k \in 1..Len(mappings) :
       LET m == mappings[k] IN
         /\ HasOverride(m.external_endpoint)
         /\ "param_mapping" \notin DOMAIN manual_mappings[m.external_endpoint.operation_id]
         /\ m.param_mapping = <<>>
         /\ _auto_map_parameters(m.external_endpoint, m.internal_endpoint) # <<>>

\* C6 (as claimed): when no operation id matches and several internal
\* endpoints have the method and share a segment with the external path, the
\* first of them in catalog order is chosen
C6_FirstPathMatchChosen ==
  Done(Delegate) =>
    \A i \in ExtIndices :
      LET e == external_endpoints[i] IN
        ( /\ ~HasOverride(e)
          /\ IdMatches(e) = {}
          /\ Cardinality(PathMatches(e)) >= 2 )
        => /\ MappingsOf(e) # {}
           /\ \A k \in MappingsOf(e) :
                /\ mappings[k].internal_endpoint
                     = internal_endpoints[Min(PathMatches(e))]
                /\ Segments(mappings[k].internal_endpoint.path)
                     \cap Segments(e.path) # {}

\* C7 (as claimed): in either script an operation-id match anywhere in the
\* catalog is chosen over path similarity, the earliest one when there are
\* several
C7_IdBeforePathEveryScript ==
  pc = "done" =>
    \A i \in ExtIndices :
      LET e == external_endpoints[i] IN
        (~HasOverride(e) /\ IdMatches(e) # {}) =>
          /\ MappingsOf(e) # {}
          /\ \A k \in MappingsOf(e) :
               mappings[k].internal_endpoint
                 = internal_endpoints[Min(IdMatches(e))]

\* C7 (amended): EndpointMapper._find_best_match chooses the earliest
\* operation-id match over any path-similar endpoint
C7_IdBeforePathDelegate ==
  Done(Delegate) =>
    \A i \in ExtIndices :
      LET e == external_endpoints[i] IN
        (~HasOverride(e) /\ IdMatches(e) # {}) =>
          /\ MappingsOf(e) # {}
          /\ \A k \in MappingsOf(e) :
               mappings[k].internal_endpoint
                 = internal_endpoints[Min(IdMatches(e))]

\* an endpoint with two operation-id matches, after a path-similar endpoint
C7_Witness ==
  /\ Done(Delegate)
  /\ \E i \in ExtIndices :
       LET e == external_endpoints[i] IN
         /\ ~HasOverride(e)
         /\ Cardinality(IdMatches(e)) >= 2
         /\ \E j \in PathMatches(e) : j < Min(IdMatches(e))
         /\ \E k \in MappingsOf(e) :
              mappings[k].internal_endpoint
                = internal_endpoints[Min(IdMatches(e))]

\* C9: every mapping joins an endpoint of the external catalog to an endpoint
\* of the internal catalog, and no external endpoint is mapped twice
C9_MappingsWithinCatalogs ==
  script = Delegate =>
    /\ \A k \in 1..Len(mappings) :
         /\ mappings[k].internal_endpoint \in SetOf(internal_endpoints)
         /\ mappings[k].external_endpoint \in SetOf(external_endpoints)
    /\ \A i \in ExtIndices :
         Cardinality(MappingsOf(external_endpoints[i])) <= 1

\* a result with an override mapping and a heuristic mapping
C9_Witness ==
  /\ Done(Delegate)
  /\ \E k \in 1..Len(mappings) : HasOverride(mappings[k].external_endpoint)
  /\ \E k \in 1..Len(mappings) : ~HasOverride(mappings[k].external_endpoint)

(* ================= properties of _auto_map_parameters ================= *)
ExactNames(n) ==
  {j \in 1..Len(int_parameters) : Lower(int_parameters[j].name) = Lower(n)}

SuffixNames(n) ==
  {j \in 1..Len(int_parameters) :
     \/ EndsWith(Lower(n), Lower(int_parameters[j].name))
     \/ EndsWith(Lower(int_parameters[j].name), Lower(n))}

\* C8 (as claimed): each external parameter maps to the internal parameter of
\* the same name (case-insensitive) if there is one, else to the first
\* internal parameter that is a suffix of it or has it as a suffix, else it
\* has no entry
C8_EveryParameterMapped ==
  pc = "done" =>
    \A k \in 1..Len(ext_parameters) :
      LET n == ext_parameters[k].name IN
        IF ExactNames(n) # {}
        THEN /\ n \in DOMAIN mapping
             /\ mapping[n] \in {int_parameters[j].name : j \in ExactNames(n)}
        ELSE IF SuffixNames(n) # {}
        THEN /\ n \in DOMAIN mapping
             /\ mapping[n] = int_parameters[Min(SuffixNames(n))].name
        ELSE n \notin DOMAIN mapping

(* ================= properties of the splice ================= *)
\* nesting depth of s after position j, counted from the opening brace at open
Depth(s, open, j) ==
  1 + Cardinality({k \in (open + 1)..j : s[k] = "{"})
    - Cardinality({k \in (open + 1)..j : s[k] = "}"})

\* the position after open where the depth comes back to 0 for the first time
Closing(s, open) ==
  {j \in (open + 1)..Len(s) :
     s[j] = "}" /\ Depth(s, open, j) = 0
       /\ \A k \in (open + 1)..(j - 1) : Depth(s, open, k) > 0}

Count(s, c) == Cardinality({k \in 1..Len(s) : s[k] = c})

\* s ends with the text tail
EndsWithText(s, tail) ==
  Len(tail) <= Len(s) /\ SubSeq(s, Len(s) - Len(tail) + 1, Len(s)) = tail

\* the text part occurs in s
Contains(s, part) ==
  \E k \in 0..(Len(s) - Len(part)) : SubSeq(s, k + 1, k + Len(part)) = part

\* C11: inject_method applied twice with the same method and body writes the
\* same text the second time as the first time, for every source and every
\* body
C11_Idempotent ==
  (pc = "done" /\ splicer = InjectMethod) => writes[2] = writes[1]

\* C12: splicing "return null;" into foo of the scenario source raises no
\* error, keeps "class C { public Object foo() {" and the two closing braces,
\* puts the new body on its own line behind 8 spaces in place of "return 1;"
\* and adds no second foo
C12_ScenarioBodyReplaced ==
  (/\ java_source = ScenarioSource
   /\ new_body = <<"return", " ", "null", ";">>
   /\ pc # "call")
  => /\ error = None
     /\ writes # <<>>
     /\ LET out == writes[1] IN
          /\ SubSeq(out, 1, 15) = SubSeq(ScenarioSource, 1, 15)
          /\ EndsWithText(out, <<"}", " ", "}">>)
          /\ Contains(out, <<"\n">> \o Spaces(8) \o new_body)
          /\ Count(out, "1") = 0
          /\ Count(out, "foo") = 1

\* the source has no closing brace for the splice: without a signature of the
\* method no "}" at all, with one an opening brace that is never balanced
LacksClosing(s, name) ==
  IF Search(s, name, FALSE, FALSE) = 0
  THEN RFind(s, "}") = 0
  ELSE LET open == Search(s, name, TRUE, TRUE) - 1
       IN  open > 0 /\ Closing(s, open) = {}

\* C13: when the source lacks the closing brace, inject_method raises and
\* writes nothing
C13_NoClosingBraceRaises ==
  (splicer = InjectMethod /\ pc # "call"
     /\ LacksClosing(java_source, method_name))
  => (error # None /\ writes = <<>>)

\* C14: without a signature of the target method, inject_method puts the
\* method block (signature, opening brace, indented body, closing brace)
\* right before the last "}" of the file, keeps every character of the
\* original in place, and does not look for a method of the same name
C14_AppendBeforeLastBrace ==
  (splicer = InjectMethod /\ pc = "again"
     /\ Search(java_source, method_name, FALSE, FALSE) = 0)
  => LET src == java_source
         out == writes[1]
         last_brace == RFind(src, "}")
         added == Len(out) - Len(src)
         block == <<"\n">> \o Spaces(4)
                    \o _build_signature(method_name, inject_parameters,
                                        return_type)
                    \o <<" ", "{", "\n">> \o _indent_code(new_body, 2)
                    \o <<"\n">> \o Spaces(4) \o <<"}", "\n", "\n">>
     IN  /\ last_brace > 0
         /\ SubSeq(out, 1, last_brace - 1) = SubSeq(src, 1, last_brace - 1)
         /\ SubSeq(out, last_brace, last_brace + added - 1) = block
         /\ SubSeq(out, last_brace + added, Len(out))
              = SubSeq(src, last_brace, Len(src))
         /\ RFind(out, "}") = last_brace + added
         /\ Count(out, method_name) = Count(src, method_name) + 1

\* a method block was appended to a file that has text after its last "}"
\* and already has a method of that name the pattern does not recognise
C14_Witness ==
  /\ splicer = InjectMethod /\ pc = "again"
  /\ Search(java_source, method_name, FALSE, FALSE) = 0
  /\ Count(java_source, method_name) = 1
  /\ RFind(java_source, "}") < Len(java_source)
  /\ Len(Split(new_body, "\n")) > 1
  /\ inject_parameters # <<>>
  /\ Count(writes[1], method_name) = 2

\* C15: with two methods of the target name, inject_method and merge_method
\* replace the body of the first one and leave the text from the second one
\* on unchanged
C15_FirstOverloadReplaced ==
  (java_source \in OverloadSources /\ pc = "again")
  => LET src == java_source
         out == writes[1]
         second == Max({k \in 1..Len(src) : src[k] = method_name})
     IN  /\ EndsWithText(out, SubSeq(src, second, Len(src)))
         /\ Count(out, "a") = 0
         /\ Count(out, "b") = 1

(* ================= properties of the driving scripts ================= *)
Last(s) == s[Len(s)]

OracleCalls == {k \in 1..Len(events) : events[k].kind = "oracle"}

\* the last thing that happened is a completion call that raised
OracleRaised(ev) ==
  ev # <<>> /\ Last(ev).kind = "oracle" /\ Last(ev).result = "raised"

\* C16: in every script that loops over endpoints an error inside the loop is
\* caught: once the loop has begun the run does not end by an exception, and
\* at the summary every mapping has been processed exactly once
C16_FailSoftEveryDriver ==
  driver \in {SBA, GPT} =>
    /\ pc = "raised" => OracleCalls = {}
    /\ pc = "summary" => Cardinality(OracleCalls) = Len(mappings)

\* the four fields of a mapping the fallback stub is made of
StubFields(mp) ==
  [external_endpoint |->
     [method |-> mp.external_endpoint.method,
      path |-> mp.external_endpoint.path,
      operation_id |-> mp.external_endpoint.operation_id],
   internal_endpoint |-> [path |-> mp.internal_endpoint.path]]

C17_Step ==
  /\ (driver = SBA /\ events' # events /\ OracleRaised(events'))
     => /\ pc' = "inject"
        /\ method_body' = _generate_fallback(StubFields(mappings[run_idx]))
        /\ failed_count' = failed_count /\ run_idx' = run_idx
  /\ (driver = SBA /\ pc = "inject" /\ OracleRaised(events) /\ pc' = "generate")
     => LET mp == mappings[run_idx]
            stub == _generate_fallback(StubFields(mp))
        IN  IF CanInject(mp)
            THEN /\ delegate_files'[ClassName(mp.external_endpoint.tag)]
                      = Injected(mp, stub)
                 /\ generated_count' = generated_count + 1
                 /\ failed_count' = failed_count
            ELSE failed_count' = failed_count + 1

\* C17: when the completion call raises, the body is the fallback stub made
\* of the external method, path and operation id and the internal path alone;
\* injection runs with it, and the failure tally grows only when the
\* injection itself fails
C17_OracleFailureRecovered == [][C17_Step]_vars

\* after a failed completion call the stub was injected and counted as
\* generated, with no failure counted
C17_Witness ==
  /\ driver = SBA /\ pc = "generate"
  /\ run_idx = 2
  /\ OracleCalls # {} /\ \A k \in OracleCalls : events[k].result = "raised"
  /\ generated_count = 1 /\ failed_count = 0
  /\ \E c \in DOMAIN delegate_files :
       Count(delegate_files[c], "throw new UnsupportedOperationException") = 1

\* C18: the summary's counts (succeeded, skipped, failed) add up to the
\* number of external endpoints
C18_SummaryCountsEveryEndpoint ==
  (driver = SBA /\ pc = "summary") =>
    LET s == summary[1]
    IN  s.generated + s.failed
          + (IF "skipped" \in DOMAIN s THEN s.skipped ELSE 0)
          = Len(external_endpoints)

\* a run of the scaffolding tool
Scaffolding(e) ==
  e.kind = "subprocess"
    /\ e.what \in {"generate_server", "generate_client", "cli", "docker"}

\* C19 as claimed: with an input document that cannot be read or parsed,
\* SpringBootAutomation and ServiceGenerator make no oracle call, run no
\* scaffolding subprocess and write nothing, and do not complete
C19_SpecErrorBeforeAnyStep ==
  (driver \in {SBA, SG} /\ ~AllOk(specs_ok)) =>
    /\ pc \notin {"done", "summary"}
    /\ \A k \in 1..Len(events) :
         events[k].kind \notin {"oracle", "write"} /\ ~Scaffolding(events[k])

\* C19: with an input document that cannot be read or parsed,
\* SpringBootAutomation does nothing at all before it raises;
\* ServiceGenerator runs the scaffolding tool and writes the tool's config
\* files, and raises in _build_context before any oracle call and before the
\* merge writes the project
C19_SpecErrorBeforeOracle ==
  (driver \in {SBA, SG} /\ ~AllOk(specs_ok)) =>
    /\ pc \notin {"generate_service_layer", "merge", "done", "summary",
                  "loop", "generate", "inject"}
    /\ \A k \in 1..Len(events) : events[k].kind # "oracle"
    /\ IF driver = SBA THEN events = <<>>
       ELSE \A k \in 1..Len(events) :
              events[k].kind = "write" =>
                events[k].what \in {"server-config.json", "client-config.json"}

\* ServiceGenerator raised in _build_context after server and client were
\* scaffolded
C19_Witness ==
  /\ driver = SG /\ pc = "raised"
  /\ ~AllOk(specs_ok)
  /\ Last(events) = Event("parse", "_build_context", "raised")
  /\ \E k \in 1..Len(events) : events[k].what = "generate_client"

\* a run of the scaffolding tool, or the probe for it, that failed
FailedScaffold(e) ==
  (Scaffolding(e) \/ (e.kind = "subprocess" /\ e.what = "version"))
    /\ e.result # "0"

\* C20 as claimed: a failed scaffolding subprocess is the last thing
\* ServiceGenerator and APIBridgeGenerator do
C20_ScaffoldFailureNoAlternative ==
  driver \in {SG, ABG} =>
    \A k \in 1..Len(events) :
      FailedScaffold(events[k]) =>
        (k = Len(events) /\ pc \in {"raised", "exited"})

\* C20: a failed scaffolding subprocess is the last thing the run does,
\* except that APIBridgeGenerator answers a failed CLI run by one Docker run
C20_ScaffoldFailureFatalAfterDocker ==
  driver \in {SG, ABG} =>
    \A k \in 1..Len(events) :
      FailedScaffold(events[k]) =>
        IF events[k].what = "cli"
        THEN \/ k = Len(events) /\ pc = "docker"
             \/ /\ k + 2 <= Len(events)
                /\ events[k + 1] = Event("write", "copy", "ok")
                /\ events[k + 2].what = "docker"
        ELSE k = Len(events) /\ pc \in {"raised", "exited"}

\* the CLI run failed, then the Docker run failed and generate raised
C20_Witness ==
  /\ driver = ABG /\ pc = "raised"
  /\ \E k \in 1..Len(events) :
       events[k].what = "cli" /\ events[k].result # "0"
  /\ Last(events).what = "docker" /\ Last(events).result # "0"

(* properties of the cleaning of a completion *)
\* the text holds no code fence, no signature line and as many closing as
\* opening braces
Sanitized(text) ==
  /\ ~\E i \in 1..Len(text) : text[i] \in {"~~~java", "~~~"}
  /\ LET lines == Split(text, "\n")
     IN  \A k \in 1..Len(lines) : ~IsSignatureLine(StrStrip(lines[k]))
  /\ Count(text, "{") = Count(text, "}")

\* C21: whenever the completion call has returned, the body that
\* generate_method_body hands to inject_method holds no code fence marker,
\* no signature line and nothing of the wrapper of an embedded signature:
\* its braces are balanced
C21_OracleOutputSanitized ==
  (At_(SBA, "inject") /\ events # <<>>
     /\ Last(events) = Event("oracle", "completion", "ok"))
    => Sanitized(method_body)


(* properties of the brace scan *)
\* nesting depth after position j when only the braces that are code count
CodeDepth(s, open, j) ==
  1 + Cardinality({k \in (open + 1)..j : s[k] = "{" /\ IsCode(s, k)})
    - Cardinality({k \in (open + 1)..j : s[k] = "}" /\ IsCode(s, k)})

\* the closing brace of the method that opens at open, as Java sees it
CodeClosing(s, open) ==
  {j \in (open + 1)..Len(s) :
     s[j] = "}" /\ IsCode(s, j) /\ CodeDepth(s, open, j) = 0
       /\ \A k \in (open + 1)..(j - 1) : CodeDepth(s, open, k) > 0}

\* the braces of s between open and j that are not code
OtherBraces(s, open, j, c) ==
  Cardinality({k \in (open + 1)..j : s[k] = c /\ ~IsCode(s, k)})

\* C22: the scan starts after the opening brace with count 1, adds 1 for "{"
\* and subtracts 1 for "}", and the body ends at the first index where the
\* count is 0, which is where the kept rest of the source begins; the count is
\* lexical: when every brace is code the end index is the closing brace of the
\* method, and braces in a string literal or a comment that do not pair up
\* move the end index away from it
C22_BraceScanLexical ==
  pc = "done" =>
    LET open == Search(content, method_name, TRUE, TRUE) - 1
        method_end == ScanBraces(content, open + 1, 1) - 1
        closing == Closing(content, open)
        code == CodeClosing(content, open)
        X == <<"\n">> \o _indent_code(new_body, 2) \o <<"\n", " ", " ", " ", " ">>
    IN  open > 0 =>
          /\ new_content = SubSeq(content, 1, open) \o X
                             \o SubSeq(content, method_end, Len(content))
          /\ closing # {} => method_end = Min(closing)
          /\ (code # {} /\ \A k \in (open + 1)..Len(content) : IsCode(content, k))
               => method_end = Min(code)
          /\ (code # {} /\ closing # {}
                /\ OtherBraces(content, open, Min(code), "{")
                     # OtherBraces(content, open, Min(code), "}"))
               => method_end # Min(code)

\* a body whose string literal holds a closing brace was replaced: the scan
\* ended inside the literal, before the closing brace of the method
C22_Witness ==
  /\ pc = "done"
  /\ LET open == Search(content, method_name, TRUE, TRUE) - 1
         method_end == ScanBraces(content, open + 1, 1) - 1
         code == CodeClosing(content, open)
     IN  /\ open > 0 /\ code # {}
         /\ InLiteral(content, method_end)
         /\ method_end < Min(code)
         /\ new_content # content


(* properties of the re-indentation *)
\* out is code with every line that holds a non-whitespace character
\* prefixed by 4 * levels spaces and every other line emptied
Reindented(out, code, levels) ==
  LET lines == Split(code, "\n")
      res == Split(out, "\n")
  IN  /\ Len(res) = Len(lines)
      /\ \A k \in 1..Len(lines) :
           IF \E c \in 1..Len(lines[k]) : ~IsSpace(lines[k][c])
           THEN /\ Len(res[k]) = 4 * levels + Len(lines[k])
                /\ \A c \in 1..(4 * levels) : res[k][c] = " "
                /\ SubSeq(res[k], 4 * levels + 1, Len(res[k])) = lines[k]
           ELSE res[k] = <<>>

\* C23: _indent_code prefixes every line that holds a non-whitespace
\* character with exactly 4 * levels spaces, keeping the line as it is, makes
\* every empty or whitespace-only line the empty line and keeps the number
\* and order of the lines; the body that _update_existing_method puts
\* between the opening brace and the kept rest is indented with depth 2
C23_Reindentation ==
  pc = "done" =>
    /\ \A levels \in 0..3 :
         Reindented(_indent_code(new_body, levels), new_body, levels)
    /\ LET open == Search(content, method_name, TRUE, TRUE) - 1
           method_end == ScanBraces(content, open + 1, 1) - 1
           rest == Len(content) - method_end + 1
           inserted == SubSeq(new_content, open + 2,
                              Len(new_content) - rest - 5)
       IN  open > 0 =>
             /\ Len(new_content) >= open + rest + 6
             /\ new_content[open + 1] = "\n"
             /\ Reindented(inserted, new_body, 2)

\* a body of several lines was spliced in, one of them holding only a space
\* and one of them code
C23_Witness ==
  /\ pc = "done"
  /\ Search(content, method_name, TRUE, TRUE) > 0
  /\ new_content # content
  /\ LET lines == Split(new_body, "\n")
     IN  /\ \E k \in 1..Len(lines) :
               lines[k] # <<>> /\ \A c \in 1..Len(lines[k]) : IsSpace(lines[k][c])
         /\ \E k \in 1..Len(lines) :
               \E c \in 1..Len(lines[k]) : ~IsSpace(lines[k][c])


(* properties of the lookup by operation id *)
\* positions in the internal catalog of the endpoints with the id that the
\* override of e names
TargetIndices(e) ==
  {j \in IntIndices : internal_endpoints[j].operation_id = OverrideTarget(e)}

\* C24 (as claimed): when internal endpoints share the operation id that an
\* override names, the later one in catalog order is the one the override is
\* resolved to
C24_SecondDuplicateShadows ==
  Done(Delegate) =>
    \A i \in ExtIndices :
      LET e == external_endpoints[i] IN
        (NamesTarget(e) /\ TargetPresent(e)) =>
          \A k \in MappingsOf(e) :
            mappings[k].internal_endpoint
              = internal_endpoints[Max(TargetIndices(e))]

\* C24 (amended): when internal endpoints share the operation id that an
\* override names, the first one in catalog order is the one the override is
\* resolved to, and a later one is never returned
C24_FirstDuplicateReturned ==
  Done(Delegate) =>
    \A i \in ExtIndices :
      LET e == external_endpoints[i] IN
        (NamesTarget(e) /\ TargetPresent(e)) =>
          /\ MappingsOf(e) # {}
          /\ \A k \in MappingsOf(e) :
               mappings[k].internal_endpoint
                 = internal_endpoints[Min(TargetIndices(e))]

\* an override was resolved in a catalog that holds its target id twice
C24_Witness ==
  /\ Done(Delegate)
  /\ \E i \in ExtIndices :
       LET e == external_endpoints[i] IN
         /\ NamesTarget(e)
         /\ Cardinality(TargetIndices(e)) >= 2
         /\ \E k \in MappingsOf(e) :
              /\ mappings[k].internal_endpoint
                   = internal_endpoints[Min(TargetIndices(e))]
              /\ mappings[k].internal_endpoint
                   # internal_endpoints[Max(TargetIndices(e))]


(* properties of the files of a run *)
\* C25: a step of run that counts a failure leaves every class file as it
\* is, the files written for the earlier endpoints and the target of the
\* failing call alike, and writes nothing; class files change only in a
\* step that counts a success, and then only the class file of the current
\* mapping changes
C25_Step ==
  driver = SBA =>
    /\ failed_count' = failed_count + 1 =>
         /\ delegate_files' = delegate_files
         /\ events' = events
    /\ delegate_files' # delegate_files =>
         /\ pc = "inject" /\ run_idx <= Len(mappings)
         /\ generated_count' = generated_count + 1
         /\ failed_count' = failed_count
         /\ DOMAIN delegate_files' = DOMAIN delegate_files
         /\ \A c \in DOMAIN delegate_files :
              c # ClassName(mappings[run_idx].external_endpoint.tag)
                => delegate_files'[c] = delegate_files[c]

C25_NoRollbackNoWriteOnFailure == [][C25_Step]_vars

\* the first mapping was injected and the second one failed on a class file
\* that is there: the file of the first still holds its method and the file
\* without closing brace is as it was
C25_Witness ==
  /\ At_(SBA, "generate")
  /\ run_idx = 3 /\ generated_count = 1 /\ failed_count = 1
  /\ CanInject(mappings[1])
  /\ ~CanInject(mappings[2])
  /\ LET first == ClassName(mappings[1].external_endpoint.tag)
         second == ClassName(mappings[2].external_endpoint.tag)
     IN  /\ second \in DOMAIN delegate_files
         /\ delegate_files[second] = NoBraceFile
         /\ Contains(delegate_files[first],
                     <<Ident[mappings[1].external_endpoint.operation_id]>>)


(* properties of a returned injection *)
\* s holds a method of that name whose body is the indented new body
HasMethodWithBody(s, name, body) ==
  \E k, b \in 1..Len(s) :
    /\ k < b /\ s[k] = name /\ s[b] = "{"
    /\ \A m \in (k + 1)..(b - 1) : s[m] \notin {"{", "}"}
    /\ StartsWithAt(s, b + 1,
         <<"\n">> \o _indent_code(body, 2) \o <<"\n", " ", " ", " ", " ">>)

\* C26: whenever inject_method has returned, the written file holds the
\* target method with the indented new body as its body, replaced or
\* appended, whatever signature the existence check has accepted
C26_ReturnedInjectionHasBody ==
  (splicer = InjectMethod /\ pc = "again") =>
    /\ writes # <<>>
    /\ HasMethodWithBody(java_file, method_name, new_body)


(* properties of merge_method *)
\* the opening braces of the methods of that name in s
MethodOpens(s, name) ==
  {b \in 1..Len(s) :
     /\ s[b] = "{"
     /\ \E k \in 1..(b - 1) :
          /\ s[k] = name /\ At(s, k + 1, "(")
          /\ \A m \in (k + 1)..(b - 1) : s[m] \notin {"{", "}", ";"}}

\* t is s with the text between the brace at open and its matching closing
\* brace replaced by the indented body, white space before the closing brace
\* kept or not
MergedAt(t, s, open, body) ==
  LET close == Min(Closing(s, open))
  IN  \E g \in (open + 1)..close :
        /\ \A k \in g..(close - 1) : IsSpace(s[k])
        /\ t = SubSeq(s, 1, open) \o <<"\n">>
                 \o textwrap_indent(StrStrip(body), Spaces(8))
                 \o SubSeq(s, g, Len(s))

\* C27: for a source that holds the target method, merge_method replaces
\* exactly the text between the opening brace of the method and its
\* matching closing brace by the indented new body and leaves the rest as
\* it is, also when the old body holds a nested block whose closing brace
\* stands on a line of its own; for a source without the method it raises
\* RuntimeError and writes nothing
C27_SafeMethodBodyMerge ==
  (splicer = MergeMethod /\ (pc = "again" \/ (pc = "raised" /\ writes = <<>>)))
    => LET opens == {b \in MethodOpens(java_source, method_name) :
                       Closing(java_source, b) # {}}
       IN  /\ ~Contains(java_source, <<method_name, "(">>) =>
                /\ pc = "raised" /\ error = Some("RuntimeError")
                /\ java_file = java_source
           /\ opens # {} =>
                /\ pc = "again"
                /\ \E open \in opens :
                     MergedAt(java_file, java_source, open, new_body)


(* properties of the counters of a run *)
\* the counters add up to the mappings processed so far, and the summary
\* holds the counters after the last mapping
Tally ==
  /\ pc \in {"generate", "inject"} =>
       /\ generated_count + failed_count = run_idx - 1
       /\ run_idx <= Len(mappings) + 1
  /\ pc = "summary" =>
       /\ summary = Some([generated |-> generated_count,
                          failed |-> failed_count])
       /\ generated_count + failed_count = Len(mappings)

\* C28: in run, generated_count + failed_count is the number of mappings
\* processed so far after every iteration, every mapping adds one to exactly
\* one of the two counters, and at the summary the two counters add up to
\* the number of mappings that map_endpoints returned
C28_Step ==
  driver = SBA =>
    /\ Tally
    /\ Tally'
    /\ (pc \in {"generate", "inject"} /\ run_idx' = run_idx + 1) =>
         \/ /\ generated_count' = generated_count + 1
            /\ failed_count' = failed_count
         \/ /\ generated_count' = generated_count
            /\ failed_count' = failed_count + 1
    /\ (pc \in {"generate", "inject"} /\ run_idx' = run_idx) =>
         /\ generated_count' = generated_count
         /\ failed_count' = failed_count

C28_TallyInvariant == [][C28_Step]_vars

\* a summary after a run with a mapping that succeeded and one that failed
C28_Witness ==
  /\ At_(SBA, "summary")
  /\ Len(mappings) >= 2
  /\ summary # None
  /\ summary[1].generated >= 1 /\ summary[1].failed >= 1
  /\ summary[1].generated + summary[1].failed = Len(mappings)


(* properties of the generation graph *)
\* a is b or the beginning of b
IsPrefix(a, b) == Len(a) <= Len(b) /\ a = SubSeq(b, 1, Len(a))

\* C29: the nodes run in the order planner, generate_models,
\* generate_services, generate_controllers, generate_config, none twice, and
\* each exactly once when invoke returns; the plan is set before a layer
\* generator runs and is not set again; after every node the files list
\* begins with the files list before it
C29_Step ==
  /\ IsPrefix(node_trace, GraphNodes)
  /\ IsPrefix(node_trace', GraphNodes)
  /\ pc' = "END" => node_trace' = GraphNodes
  /\ (Len(node_trace') >= 2 /\ pc' # "raised") => plan' # None
  /\ Len(node_trace) >= 2 => plan # None
  /\ plan # None => plan' = plan
  /\ IsPrefix(files, files')
  /\ (Len(node_trace') > Len(node_trace) /\ Len(node_trace) = 0) =>
       files' = files

C29_LayeredGraphOrder == [][C29_Step]_vars

\* invoke has returned: every node ran once, and files of several layers
\* are in the list
C29_Witness ==
  /\ pc = "END"
  /\ node_trace = GraphNodes
  /\ plan # None
  /\ Len(files) >= 3
  /\ \E i, j \in 1..Len(files) : i < j /\ files[i] = files[j]

(* properties of the continuation loop *)
\* the text holds more opening than closing braces
Unclosed(text) == Count(text, "{") > Count(text, "}")

\* C30: a continuation request is sent exactly while raw_output holds more
\* "{" than "}": with more, the only step is another call of the agent, whose
\* answer is appended, however many calls there have been; without more, no
\* call is made. When the loop is left there are not more "{" than "}", a
\* specification is returned only if raw_output is JSON, and the parse
\* error is raised otherwise
C30_Step ==
  /\ (pc = "while" /\ Unclosed(raw_output)) =>
       /\ agent_calls' = agent_calls + 1
       /\ IsPrefix(raw_output, raw_output')
       /\ pc' = "while"
  /\ (pc = "while" /\ ~Unclosed(raw_output)) =>
       /\ agent_calls' = agent_calls
       /\ raw_output' = raw_output
       /\ pc' \in {"returned", "raised"}
  /\ pc' = "returned" =>
       /\ JsonValue(raw_output', 1, FALSE) = Len(raw_output') + 1
       /\ spec' = Some(raw_output')
  /\ pc' = "raised" =>
       /\ JsonValue(raw_output', 1, FALSE) # Len(raw_output') + 1
       /\ spec' = None

C30_ContinuationLoop == [][C30_Step]_vars

\* a specification was returned after a continuation request
C30_Witness ==
  /\ pc = "returned"
  /\ agent_calls >= 2
  /\ spec = Some(raw_output)
  /\ Count(raw_output, "{") >= 2

====
